---- MODULE Spec2Model ----
(***************************************************************************)
(* Query routing and three-tier retrieval of the customer-support          *)
(* assistant: DelegatingAgent (classification, dispatch, merge), RAGAgent  *)
(* (search cascade, answer synthesis) and ChartTool (analytics).           *)
(*                                                                         *)
(* JavaScript strings are TLA+ strings; a JavaScript value that can be of  *)
(* several types (a field of the classifier's JSON) is the string of its   *)
(* JSON text ("true", "0", "\"no\"", "null"), and "undefined" when absent. *)
(***************************************************************************)
EXTENDS Integers, Sequences, FiniteSets, TLC

(***************************************************************************)
(* Bounds of the model.                                                    *)
(***************************************************************************)
MaxWords == 2       \* words of a query drawn for the classifier
MaxPieces == 4      \* pieces of a classifier reply
MaxTickets == 3     \* tickets the store holds for a search
MaxAnalytics == 3   \* tickets the store holds for the analytics scan
MaxRetrieved == 5
MaxScans == 2
MaxRequests == 2
MaxAgentCalls == 2
MaxTokens == 4   \* tickets a search hands to answer synthesis

(***************************************************************************)
(* String primitives.                                                      *)
(***************************************************************************)
\* String.prototype.includes
Includes(s, k) ==
    \E i \in 1..(Len(s) - Len(k) + 1) : SubSeq(s, i, i + Len(k) - 1) = k

UpperCase == <<"A", "B", "C", "D", "E", "F", "G", "H", "I", "J", "K", "L", "M",
               "N", "O", "P", "Q", "R", "S", "T", "U", "V", "W", "X", "Y", "Z">>
LowerCase == <<"a", "b", "c", "d", "e", "f", "g", "h", "i", "j", "k", "l", "m",
               "n", "o", "p", "q", "r", "s", "t", "u", "v", "w", "x", "y", "z">>

LowerChar(c) ==
    IF \E i \in 1..26 : UpperCase[i] = c
    THEN LowerCase[CHOOSE i \in 1..26 : UpperCase[i] = c]
    ELSE c

\* String.prototype.toLowerCase
RECURSIVE ToLowerCase(_)
ToLowerCase(s) ==
    IF Len(s) = 0 THEN ""
    ELSE LowerChar(SubSeq(s, 1, 1)) \o ToLowerCase(SubSeq(s, 2, Len(s)))

\* a JavaScript boolean as a value
JSBool(b) == IF b THEN "true" ELSE "false"

\* ToBoolean of a value: what `if (v)` tests
Truthy(v) == v \notin {"false", "0", "null", "undefined", "\"\""}

\* property read: a missing property is undefined
Get(obj, k) == IF k \in DOMAIN obj THEN obj[k] ELSE "undefined"

(***************************************************************************)
(* The program's state: one handleQuery call of the DelegatingAgent, the   *)
(* replies the external services give it, and the locals of the call.      *)
(***************************************************************************)
VARIABLES
    userQuery,        \* handleQuery's argument
    tenant,           \* handleQuery's argument, "" when null
    threadId,         \* handleQuery's argument
    requestedLimit,   \* RAGAgent.handleQuery's argument limit
    classifierReply,  \* what this.llm.invoke(analysisPrompt) does
    storeReply,       \* what the ticket store does on each tier's query
    generatorReply,   \* what this.llm.invoke(prompt) does in generateResponse
    analyticsReply,   \* what the ticket store does on the analytics query
    pc,               \* position in handleQuery
    analysis,         \* handleQuery's local, the routing decision
    calls,            \* the store queries issued so far, in order
    invoked,          \* the collaborators called so far, in order
    tickets,          \* RAGAgent.handleQuery's local, what searchTickets returned
    ragResult,        \* handleQuery's local
    chartResult,      \* handleQuery's local
    summaries,        \* generateAnalytics' local analytics, call by call
    charts,           \* what the calls of generateAnalytics returned, in order
    memory,           \* this.memory of the RAGAgent of ragAgent.js: the
                      \* messages the checkpoint saver holds, by thread_id
    loaded,           \* the messages the agent loaded for the running request
    agentResults,     \* the direct calls of that RAGAgent's handleQuery so far
    requests,         \* how many requests the server has taken
    references,       \* handleQuery's local
    result,           \* what handleQuery returned
    csvRows,          \* how many rows the CSV file holds
    delivered,        \* how many 'data' events the stream has emitted
    stream,           \* the CSV stream: flowing or paused, 'end' emitted
    currentBatch,     \* importData's local: the rows read, by their number
    isPaused,         \* importData's local
    inFlight,         \* the processBatch calls of 'data' that have not settled
    batches,          \* the batches handed to the store's batcher, in order
    timers,           \* how many setTimeout callbacks with a resume are due
    totalProcessed,   \* importData's local
    successCount,     \* importData's local
    errorCount,       \* importData's local
    rejections,       \* how many processBatch calls have thrown
    importPc          \* where importData is: before 'end', in the handler
                      \* of 'end', settled

inputs == <<userQuery, tenant, threadId, requestedLimit, classifierReply, storeReply,
            generatorReply, analyticsReply>>

\* what belongs to the ChartTool calls
scans == <<summaries, charts>>

\* what belongs to the RAGAgent of ragAgent.js and to the server
threads == <<memory, loaded, agentResults, requests>>

\* what belongs to importData
importer == <<csvRows, delivered, stream, currentBatch, isPaused, inFlight, batches,
              timers, totalProcessed, successCount, errorCount, rejections, importPc>>

\* what belongs to the agents and the server
agents == <<inputs, scans, threads, pc, analysis, calls, invoked, tickets, ragResult,
            chartResult, references, result>>

vars == <<userQuery, tenant, threadId, requestedLimit, classifierReply, storeReply,
          generatorReply, analyticsReply, pc, analysis, calls, invoked,
          tickets, ragResult, chartResult, summaries, charts, memory,
          loaded, agentResults, requests, references, result,
          csvRows, delivered, stream, currentBatch, isPaused, inFlight, batches,
          timers, totalProcessed, successCount, errorCount, rejections, importPc>>

Null == [null |-> TRUE]

(***************************************************************************)
(* The classifier's reply.  response.content is the sequence of its        *)
(* lexemes: braces, commas, members "key": value with a primitive value,   *)
(* and runs of other text that hold no brace.                              *)
(***************************************************************************)
LBrace == [t |-> "{", key |-> "", value |-> ""]
RBrace == [t |-> "}", key |-> "", value |-> ""]
Comma == [t |-> ",", key |-> "", value |-> ""]
Prose == [t |-> "text", key |-> "", value |-> ""]
Pair(k, v) == [t |-> "pair", key |-> k, value |-> v]

\* response.match(/\{[\s\S]*\}/): from the first "{" to the last "}"
JsonMatch(content) ==
    LET opens == {i \in 1..Len(content) : content[i] = LBrace}
        closes == {j \in 1..Len(content) : content[j] = RBrace}
    IN  IF opens = {} \/ closes = {}
        THEN [found |-> FALSE, span |-> <<>>]
        ELSE LET i == CHOOSE x \in opens : \A y \in opens : x <= y
                 j == CHOOSE x \in closes : \A y \in closes : x >= y
             IN  IF i < j
                 THEN [found |-> TRUE, span |-> SubSeq(content, i, j)]
                 ELSE [found |-> FALSE, span |-> <<>>]

\* JSON.parse accepts a span: "{" "}" or "{" member ("," member)* "}"
JsonValid(span) ==
    /\ Len(span) >= 2
    /\ span[1] = LBrace
    /\ span[Len(span)] = RBrace
    /\ \/ Len(span) = 2
       \/ /\ Len(span) % 2 = 1
          /\ \A i \in 2..(Len(span) - 1) :
                IF i % 2 = 0 THEN span[i].t = "pair" ELSE span[i] = Comma

\* the object JSON.parse returns: of a repeated key the last member counts
JsonParse(span) ==
    LET members == {i \in 1..Len(span) : span[i].t = "pair"}
        keys == {span[i].key : i \in members}
        last(k) == CHOOSE i \in members :
                      /\ span[i].key = k
                      /\ \A j \in members : span[j].key = k => j <= i
    IN  [k \in keys |-> span[last(k)].value]

DefaultAnalysis ==
    [needsRAG |-> "true", needsChart |-> "false",
     reasoning |-> "\"Failed to parse analysis, defaulting to RAG\""]

\* a parseJSONResponse whose default asks for neither tool
parseJSONResponseDefaultsToNothing(response) ==
    LET jsonMatch == JsonMatch(response.content)
    IN  IF response.kind = "content" /\ jsonMatch.found /\ JsonValid(jsonMatch.span)
        THEN JsonParse(jsonMatch.span)
        ELSE [needsRAG |-> "false", needsChart |-> "false",
              reasoning |-> "\"Failed to parse analysis\""]

\* DelegatingAgent.parseJSONResponse; a response that is no string has no
\* match method, and the TypeError is caught like a parse error
parseJSONResponse(response) ==
    IF response.kind # "content" THEN DefaultAnalysis
    ELSE LET jsonMatch == JsonMatch(response.content)
         IN  IF jsonMatch.found /\ JsonValid(jsonMatch.span)
             THEN JsonParse(jsonMatch.span)
             ELSE DefaultAnalysis

(***************************************************************************)
(* The keyword classifier of analyzeQueryRequirements' catch block.        *)
(***************************************************************************)
IssueKeywords ==
    {"issue", "problem", "fix", "trouble", "error", "common", "help", "setup",
     "install", "battery", "camera", "tv", "broken", "not working",
     "malfunction", "defect"}

AnalyticsKeywords ==
    {"analytics", "chart", "statistic", "data", "distribution", "trend",
     "visual", "graph", "report", "dashboard", "metrics"}

LineTerminators == {"\n", "\r"}

\* /show.*stat/: "show", then any characters of the same line, then "stat"
MatchesShowStat(s) ==
    \E i \in 1..(Len(s) - 7) :
        /\ SubSeq(s, i, i + 3) = "show"
        /\ \E j \in (i + 4)..(Len(s) - 3) :
              /\ SubSeq(s, j, j + 3) = "stat"
              /\ \A m \in (i + 4)..(j - 1) : SubSeq(s, m, m) \notin LineTerminators

hasIssueKeywords(queryLower) == \E k \in IssueKeywords : Includes(queryLower, k)

hasAnalyticsKeywords(queryLower) ==
    \/ \E k \in AnalyticsKeywords : Includes(queryLower, k)
    \/ MatchesShowStat(queryLower)

QuotaMarkers == {"429", "Too Many Requests", "quota", "rate limit"}

isQuotaError(message) == \E k \in QuotaMarkers : Includes(message, k)

\* a keyword classifier with its two tests wired to the wrong fields
KeywordAnalysisSwapped(query, quota) ==
    LET queryLower == ToLowerCase(query)
    IN  [needsRAG |-> JSBool(hasAnalyticsKeywords(queryLower)),
         needsChart |-> JSBool(hasIssueKeywords(queryLower)),
         reasoning |-> "\"Fallback analysis based on keywords due to LLM error\""]

\* a keyword classifier that on a quota error does not test the query and
\* falls back to retrieval alone
KeywordAnalysisQuotaDefaults(query, quota) ==
    LET queryLower == ToLowerCase(query)
    IN  IF quota
        THEN [needsRAG |-> "true", needsChart |-> "false",
              reasoning |-> "\"Fallback analysis due to API quota limits - using keyword detection\""]
        ELSE [needsRAG |-> JSBool(hasIssueKeywords(queryLower)),
              needsChart |-> JSBool(hasAnalyticsKeywords(queryLower)),
              reasoning |-> "\"Fallback analysis based on keywords due to LLM error\""]

KeywordAnalysis(query, quota) ==
    LET queryLower == ToLowerCase(query)
    IN  [needsRAG |-> JSBool(hasIssueKeywords(queryLower)),
         needsChart |-> JSBool(hasAnalyticsKeywords(queryLower)),
         reasoning |-> IF quota
                       THEN "\"Fallback analysis due to API quota limits - using keyword detection\""
                       ELSE "\"Fallback analysis based on keywords due to LLM error\""]

\* DelegatingAgent.analyzeQueryRequirements
analyzeQueryRequirements(query, reply) ==
    IF reply.kind = "throw"
    THEN KeywordAnalysis(query, isQuotaError(reply.message))
    ELSE parseJSONResponse(reply)

(***************************************************************************)
(* RAGAgent: the three-tier search cascade.                                *)
(***************************************************************************)
\* the limit RAGAgent.handleQuery searches with
DefaultLimit == 10

ConnectionMarkers == {"ECONNREFUSED", "fetch failed", "Connection refused"}

TransformerMarkers ==
    {"t2v-transformers", "vectorize", "no such host",
     "dial tcp: lookup t2v-transformers"}

\* RAGAgent.detectErrorType; an error without a message has message ""
detectErrorType(error) ==
    [isConnectionError |->
        \/ \E k \in ConnectionMarkers : Includes(error.message, k)
        \/ error.code = "ECONNREFUSED",
     isTransformerError |->
        \E k \in TransformerMarkers : Includes(error.message, k)]

Whitespace == {" ", "\t", "\n", "\r", "\f"}

\* String.prototype.split(/\s+/)
RECURSIVE SplitWhitespace(_)
SplitWhitespace(s) ==
    LET ws == {i \in 1..Len(s) : SubSeq(s, i, i) \in Whitespace}
    IN  IF ws = {} THEN <<s>>
        ELSE LET i == CHOOSE x \in ws : \A y \in ws : x <= y
                 rest == {j \in (i + 1)..Len(s) : SubSeq(s, j, j) \notin Whitespace}
                 j == IF rest = {} THEN Len(s) + 1
                      ELSE CHOOSE x \in rest : \A y \in rest : x <= y
             IN  <<SubSeq(s, 1, i - 1)>> \o SplitWhitespace(SubSeq(s, j, Len(s)))

\* words.filter(word => word.length > 2)
RECURSIVE LongWords(_)
LongWords(words) ==
    IF words = <<>> THEN <<>>
    ELSE (IF Len(Head(words)) > 2 THEN <<Head(words)>> ELSE <<>>)
         \o LongWords(Tail(words))

Min(a, b) == IF a <= b THEN a ELSE b

\* the number of keywords a fallback query is built from
MaxKeywords == 3

\* an extractKeywords that keeps the short words
extractKeywordsKeepsShort(query) ==
    LET words == SplitWhitespace(ToLowerCase(query))
    IN  SubSeq(words, 1, Min(MaxKeywords, Len(words)))

\* RAGAgent.extractKeywords
extractKeywords(query) ==
    LET words == LongWords(SplitWhitespace(ToLowerCase(query)))
    IN  SubSeq(words, 1, Min(MaxKeywords, Len(words)))

\* RAGAgent.createKeywordConditions: per keyword, Like *keyword* on the
\* subject, the description or the product
createKeywordConditions(keywords) ==
    [i \in 1..Len(keywords) |->
        [operator |-> "Or",
         paths |-> <<"ticketSubject", "ticketDescription", "productPurchased">>,
         like |-> "*" \o keywords[i] \o "*"]]

\* the where filter of Tier 2 and of Tier 3: product = tenant AND (any
\* keyword condition), or the keyword conditions alone
KeywordFilter(query, t) ==
    [productEqual |-> t,
     anyOf |-> createKeywordConditions(extractKeywords(query))]

\* the Tier 1 query: nearText on the query, product = tenant when given
SemanticQuery(query, t, limit) ==
    [tier |-> "semantic", concepts |-> <<query>>, productEqual |-> t,
     anyOf |-> <<>>, limit |-> limit]

StructuredQuery(query, t, limit) ==
    [tier |-> "keyword-structured", concepts |-> <<>>,
     productEqual |-> KeywordFilter(query, t).productEqual,
     anyOf |-> KeywordFilter(query, t).anyOf, limit |-> limit]

\* a Tier 3 query that sets no limit
RawQueryUnlimited(query, t, limit) ==
    [tier |-> "keyword-raw", concepts |-> <<>>,
     productEqual |-> KeywordFilter(query, t).productEqual,
     anyOf |-> KeywordFilter(query, t).anyOf, limit |-> 0]

\* a Tier 3 query filtered by the keyword conditions alone
RawQueryWithoutTenant(query, t, limit) ==
    [tier |-> "keyword-raw", concepts |-> <<>>, productEqual |-> "",
     anyOf |-> KeywordFilter(query, t).anyOf, limit |-> limit]

RawQuery(query, t, limit) ==
    [tier |-> "keyword-raw", concepts |-> <<>>,
     productEqual |-> KeywordFilter(query, t).productEqual,
     anyOf |-> KeywordFilter(query, t).anyOf, limit |-> limit]

\* what searchTickets' catch block does with the error it caught
\* a catch block that goes on to fallbackSearch whatever the error
searchTicketsCatchAlwaysFallsBack(error) ==
    [next |-> "fallbackSearch", tickets |-> <<>>]

searchTicketsCatch(error) ==
    IF detectErrorType(error).isConnectionError
    THEN [next |-> "return", tickets |-> <<>>]
    ELSE [next |-> "fallbackSearch", tickets |-> <<>>]

\* a searchTickets that takes an empty Tier 1 result for a failure
searchTicketsFallsBackOnEmpty(reply) ==
    IF reply.kind = "data" /\ Len(reply.tickets) >= 1
    THEN [next |-> "return", tickets |-> reply.tickets]
    ELSE [next |-> "fallbackSearch", tickets |-> <<>>]

\* a searchTickets that answers every failure with no tickets
searchTicketsGivesUp(reply) ==
    [next |-> "return", tickets |-> reply.tickets]

\* RAGAgent.searchTickets after its query resolved as `reply`: return the
\* tickets, or go on with fallbackSearch
searchTickets(reply) ==
    CASE reply.kind = "data" -> [next |-> "return", tickets |-> reply.tickets]
      [] reply.kind = "errors" ->
            IF detectErrorType([message |-> reply.message, code |-> ""]).isTransformerError
            THEN [next |-> "fallbackSearch", tickets |-> <<>>]
            ELSE searchTicketsCatch([message |-> "GraphQL error: " \o reply.message,
                                     code |-> ""])
      [] OTHER -> searchTicketsCatch([message |-> reply.message, code |-> reply.code])

\* a fallbackSearch that sends its query once more after a failure that is
\* no connection failure
fallbackSearchRetries(reply) ==
    IF reply.kind = "data"
    THEN IF Len(reply.tickets) = 0
         THEN [next |-> "fetchObjectsFallback", tickets |-> <<>>]
         ELSE [next |-> "return", tickets |-> reply.tickets]
    ELSE IF detectErrorType([message |-> reply.message, code |-> reply.code]).isConnectionError
         THEN [next |-> "return", tickets |-> <<>>]
         ELSE [next |-> "fallbackSearch", tickets |-> <<>>]

\* a fallbackSearch that returns whatever its query gave
fallbackSearchReturnsItsResult(reply) ==
    [next |-> "return", tickets |-> reply.tickets]

\* a fallbackSearch that goes on to fetchObjectsFallback after every error
fallbackSearchIgnoresConnectionErrors(reply) ==
    IF reply.kind = "data" /\ Len(reply.tickets) >= 1
    THEN [next |-> "return", tickets |-> reply.tickets]
    ELSE [next |-> "fetchObjectsFallback", tickets |-> <<>>]

\* a fallbackSearch that hands every outcome on to fetchObjectsFallback
fallbackSearchAlwaysGoesOn(reply) ==
    [next |-> "fetchObjectsFallback", tickets |-> <<>>]

\* RAGAgent.fallbackSearch after its query resolved as `reply`
fallbackSearch(reply) ==
    IF reply.kind = "data"
    THEN IF Len(reply.tickets) = 0
         THEN [next |-> "fetchObjectsFallback", tickets |-> <<>>]
         ELSE [next |-> "return", tickets |-> reply.tickets]
    ELSE IF detectErrorType([message |-> reply.message, code |-> reply.code]).isConnectionError
         THEN [next |-> "return", tickets |-> <<>>]
         ELSE [next |-> "fetchObjectsFallback", tickets |-> <<>>]

\* a fetchObjectsFallback that tries again after a failure
fetchObjectsFallbackRetries(reply) ==
    IF reply.kind = "data"
    THEN [next |-> "return", tickets |-> reply.tickets]
    ELSE [next |-> "fetchObjectsFallback", tickets |-> <<>>]

\* RAGAgent.fetchObjectsFallback after its query resolved as `reply`
fetchObjectsFallback(reply) ==
    IF reply.kind = "data"
    THEN [next |-> "return", tickets |-> reply.tickets]
    ELSE [next |-> "return", tickets |-> <<>>]

(***************************************************************************)
(* RAGAgent: answer synthesis.                                             *)
(***************************************************************************)
\* String.prototype.trim
Trim(s) ==
    LET n == Len(s)
        Solid(i) == SubSeq(s, i, i) \notin Whitespace
    IN  IF \A i \in 1..n : ~Solid(i) THEN ""
        ELSE LET lead == CHOOSE d \in 0..(n - 1) :
                             Solid(d + 1) /\ \A i \in 1..d : ~Solid(i)
                 trail == CHOOSE d \in 0..(n - 1) :
                              Solid(n - d) /\ \A i \in (n - d + 1)..n : ~Solid(i)
             IN  SubSeq(s, lead + 1, n - trail)

\* String.prototype.substring(0, n)
Substring0(s, n) == SubSeq(s, 1, Min(n, Len(s)))

\* tickets.map(ticket => ticket.ticketId)
TicketIds(tks) == [i \in 1..Len(tks) |-> tks[i].ticketId]

NoResultsAnswer ==
    "I couldn't find any relevant support tickets for your query. Please try rephrasing your question or check if the product name is correct."

\* the template shows this many tickets, descriptions and resolutions cut
MaxShown == 3
MaxDescription == 150
MaxResolution == 200

\* a ticket of the template answer headed by its subject, without its id
TicketBlockWithoutId(ticket) ==
    "**" \o ticket.ticketSubject \o "** ("
        \o (IF ticket.ticketPriority # "" THEN ticket.ticketPriority ELSE "Unknown")
        \o " Priority)\n"
    \o "**Product:** " \o ticket.productPurchased \o "\n"
    \o "**Status:** " \o ticket.ticketStatus \o "\n\n"

\* a ticket of the template answer with its description and its resolution
\* in full
TicketBlockUncut(ticket) ==
    "**Ticket #" \o ticket.ticketId \o "** ("
        \o (IF ticket.ticketPriority # "" THEN ticket.ticketPriority ELSE "Unknown")
        \o " Priority)\n"
    \o "**Subject:** " \o ticket.ticketSubject \o "\n"
    \o "**Product:** " \o ticket.productPurchased \o "\n"
    \o "**Status:** " \o ticket.ticketStatus \o "\n"
    \o (IF ticket.ticketDescription # ""
        THEN "**Issue:** " \o ticket.ticketDescription \o "\n"
        ELSE "")
    \o (IF ticket.resolution # ""
        THEN "**Resolution:** " \o ticket.resolution \o "\n"
        ELSE "")
    \o "\n"

\* one ticket of the template answer
TicketBlock(ticket) ==
    "**Ticket #" \o ticket.ticketId \o "** ("
        \o (IF ticket.ticketPriority # "" THEN ticket.ticketPriority ELSE "Unknown")
        \o " Priority)\n"
    \o "**Subject:** " \o ticket.ticketSubject \o "\n"
    \o "**Product:** " \o ticket.productPurchased \o "\n"
    \o "**Status:** " \o ticket.ticketStatus \o "\n"
    \o (IF ticket.ticketDescription # ""
        THEN "**Issue:** " \o Substring0(ticket.ticketDescription, MaxDescription)
             \o (IF Len(ticket.ticketDescription) > MaxDescription THEN "..." ELSE "")
             \o "\n"
        ELSE "")
    \o (IF ticket.resolution # ""
        THEN "**Resolution:** " \o Substring0(ticket.resolution, MaxResolution)
             \o (IF Len(ticket.resolution) > MaxResolution THEN "..." ELSE "")
             \o "\n"
        ELSE "")
    \o "\n"

\* a loop that shows every ticket and never breaks
RECURSIVE TicketBlocksWithoutBreak(_, _)
TicketBlocksWithoutBreak(tks, index) ==
    IF index > Len(tks) THEN ""
    ELSE TicketBlock(tks[index]) \o TicketBlocksWithoutBreak(tks, index + 1)

\* the loop of generateFallbackResponse from ticket `index` on (1-based)
RECURSIVE TicketBlocks(_, _)
TicketBlocks(tks, index) ==
    IF index > Len(tks) THEN ""
    ELSE TicketBlock(tks[index])
         \o (IF index >= MaxShown
             THEN (IF Len(tks) - MaxShown > 0
                   THEN "... and " \o ToString(Len(tks) - MaxShown)
                        \o " more similar ticket(s).\n"
                   ELSE "")
             ELSE TicketBlocks(tks, index + 1))

GeneralTips(queryLower) ==
    IF Includes(queryLower, "battery")
    THEN "\n**General Battery Tips:**\n- Check for iOS/firmware updates\n- Review battery usage in settings\n- Consider battery replacement if device is old\n"
    ELSE IF Includes(queryLower, "camera") \/ Includes(queryLower, "recording")
    THEN "\n**General Camera Tips:**\n- Ensure sufficient storage space\n- Check SD card compatibility\n- Update device firmware\n"
    ELSE IF Includes(queryLower, "setup") \/ Includes(queryLower, "install")
    THEN "\n**General Setup Tips:**\n- Follow the quick start guide\n- Ensure stable internet connection\n- Check device compatibility\n"
    ELSE ""

\* a generateFallbackResponse that lists the ids of the tickets it shows
generateFallbackResponseListsShown(query, tks, error) ==
    [answer |->
        Trim("Based on your query \"" \o query \o "\", I found "
             \o ToString(Len(tks)) \o " relevant support ticket(s):\n\n"
             \o TicketBlocks(tks, 1)
             \o GeneralTips(ToLowerCase(query))),
     references |->
        [ticketIds |-> TicketIds(SubSeq(tks, 1, Min(Len(tks), MaxShown))),
         fallbackUsed |-> TRUE]]

\* RAGAgent.generateFallbackResponse
generateFallbackResponse(query, tks, error) ==
    IF Len(tks) = 0
    THEN [answer |-> "I couldn't find any relevant support tickets for your query. This may be due to system limitations. Please try rephrasing your question or contact support directly.",
          references |-> [ticketIds |-> <<>>, fallbackUsed |-> TRUE,
                          error |-> "No tickets found"]]
    ELSE [answer |->
            Trim("Based on your query \"" \o query \o "\", I found "
                 \o ToString(Len(tks)) \o " relevant support ticket(s):\n\n"
                 \o TicketBlocks(tks, 1)
                 \o GeneralTips(ToLowerCase(query))
                 \o "\n*Note: This response was generated using fallback mode due to temporary service limitations.*"),
          references |->
            [ticketIds |-> TicketIds(tks), fallbackUsed |-> TRUE,
             fallbackReason |-> IF error.message # "" THEN error.message
                                ELSE "LLM service unavailable"]]

\* RAGAgent.generateResponse: the generator is called when there are tickets
generateResponseCalls(tks) == IF Len(tks) = 0 THEN <<>> ELSE <<"generator">>

\* a generateResponse without the early return for an empty ticket set
generateResponseAlwaysGenerates(query, tks, reply) ==
    IF reply.kind = "content"
    THEN [answer |-> Trim(reply.content),
          references |-> [ticketIds |-> TicketIds(tks)]]
    ELSE generateFallbackResponse(query, tks, [message |-> reply.message])

\* RAGAgent.generateResponse after this.llm.invoke(prompt) resolved as
\* `reply`; content that is no string has no trim method
generateResponse(query, tks, reply) ==
    IF Len(tks) = 0
    THEN [answer |-> NoResultsAnswer, references |-> [ticketIds |-> <<>>]]
    ELSE CASE reply.kind = "content" ->
                [answer |-> Trim(reply.content),
                 references |-> [ticketIds |-> TicketIds(tks)]]
           [] reply.kind = "throw" ->
                generateFallbackResponse(query, tks, [message |-> reply.message])
           [] OTHER ->
                generateFallbackResponse(query, tks,
                    [message |-> "response.content.trim is not a function"])

(***************************************************************************)
(* ChartTool: analytics.  A number of hours is an integer count of ticks,  *)
(* TicksPerHour to the hour, so that a minute (1/60 h) and a hundredth     *)
(* (0.01 h) are both whole.  Colours and chart options are left out.       *)
(***************************************************************************)
TicksPerHour == 6000
TicksPerMinute == 100
TicksPerHundredth == 60

Digits == <<"0", "1", "2", "3", "4", "5", "6", "7", "8", "9">>

IsDigit(c) == \E d \in 1..10 : Digits[d] = c

DigitValue(c) == (CHOOSE d \in 1..10 : Digits[d] = c) - 1

\* ChartTool.parseTimeToHours of a timestamp "YYYY-MM-DDTHH:MM..." read in
\* the zone it is written in: hours + minutes / 60 in ticks, -1 for null
parseTimeToHours(timeString) ==
    IF /\ Len(timeString) >= 16
       /\ \A i \in {12, 13, 15, 16} : IsDigit(SubSeq(timeString, i, i))
    THEN LET hours == 10 * DigitValue(SubSeq(timeString, 12, 12))
                      + DigitValue(SubSeq(timeString, 13, 13))
             minutes == 10 * DigitValue(SubSeq(timeString, 15, 15))
                        + DigitValue(SubSeq(timeString, 16, 16))
         IN  IF hours < 24 /\ minutes < 60
             THEN hours * TicksPerHour + minutes * TicksPerMinute
             ELSE -1
    ELSE -1

RECURSIVE Sum(_)
Sum(seq) == IF seq = <<>> THEN 0 ELSE Head(seq) + Sum(Tail(seq))

SeqMin(seq) == CHOOSE x \in {seq[i] : i \in 1..Len(seq)} :
                   \A i \in 1..Len(seq) : x <= seq[i]

SeqMax(seq) == CHOOSE x \in {seq[i] : i \in 1..Len(seq)} :
                   \A i \in 1..Len(seq) : x >= seq[i]

\* Math.round((sum / n) * 100) / 100 in ticks: the nearest hundredth, a
\* half rounded up
RoundedAverage(seq) ==
    TicksPerHundredth
        * ((2 * Sum(seq) + TicksPerHundredth * Len(seq))
           \div (2 * TicksPerHundredth * Len(seq)))

\* ChartTool.calculateTimeStats
calculateTimeStats(times) ==
    IF Len(times) = 0 THEN [average |-> 0, min |-> 0, max |-> 0, count |-> 0]
    ELSE [average |-> RoundedAverage(times), min |-> SeqMin(times),
          max |-> SeqMax(times), count |-> Len(times)]

\* counts by label in first-seen order, as Object.keys lists them
RECURSIVE CountBy(_)
CountBy(labels) ==
    IF labels = <<>> THEN [labels |-> <<>>, data |-> <<>>]
    ELSE LET n == Len(labels)
             before == CountBy(SubSeq(labels, 1, n - 1))
             seen == {i \in 1..Len(before.labels) : before.labels[i] = labels[n]}
         IN  IF seen = {}
             THEN [labels |-> Append(before.labels, labels[n]),
                   data |-> Append(before.data, 1)]
             ELSE [labels |-> before.labels,
                   data |-> [i \in 1..Len(before.data) |->
                                IF i \in seen THEN before.data[i] + 1
                                ELSE before.data[i]]]

\* the values a loop of processAnalyticsData pushes
RECURSIVE Collect(_, _)
Collect(tks, field) ==
    IF tks = <<>> THEN <<>>
    ELSE LET ticket == Head(tks)
             value == CASE field = "response" ->
                             IF ticket.firstResponseTime # ""
                             THEN parseTimeToHours(ticket.firstResponseTime)
                             ELSE -1
                        [] field = "resolution" ->
                             IF ticket.timeToResolution # 0
                             THEN ticket.timeToResolution * TicksPerHour
                             ELSE -1
                        [] OTHER ->
                             IF ticket.customerSatisfactionRating # 0
                             THEN ticket.customerSatisfactionRating
                             ELSE -1
         IN  (IF value >= 0 THEN <<value>> ELSE <<>>) \o Collect(Tail(tks), field)

\* ChartTool.calculateSatisfactionStats: the average in hundredths, the
\* ratings counted by bucket in ascending order
calculateSatisfactionStats(ratings) ==
    IF Len(ratings) = 0 THEN [average |-> 0, labels |-> <<>>, data |-> <<>>, count |-> 0]
    ELSE LET buckets == {ratings[i] : i \in 1..Len(ratings)}
             RECURSIVE Sorted(_)
             Sorted(S) == IF S = {} THEN <<>>
                          ELSE LET m == CHOOSE x \in S : \A y \in S : x <= y
                               IN  <<m>> \o Sorted(S \ {m})
             labels == Sorted(buckets)
         IN  [average |-> (200 * Sum(ratings) + Len(ratings)) \div (2 * Len(ratings)),
              labels |-> labels,
              data |-> [i \in 1..Len(labels) |->
                           Cardinality({j \in 1..Len(ratings) : ratings[j] = labels[i]})],
              count |-> Len(ratings)]

\* a processAnalyticsData that passes over a ticket without a status or
\* without a priority
processAnalyticsDataSkipsMissing(tks) ==
    [statusDistribution |->
        CountBy(SelectSeq([i \in 1..Len(tks) |-> tks[i].ticketStatus],
                          LAMBDA v : v # "")),
     priorityDistribution |->
        CountBy(SelectSeq([i \in 1..Len(tks) |-> tks[i].ticketPriority],
                          LAMBDA v : v # "")),
     responseTimeStats |-> calculateTimeStats(Collect(tks, "response")),
     resolutionTimeStats |-> calculateTimeStats(Collect(tks, "resolution")),
     satisfactionStats |-> calculateSatisfactionStats(Collect(tks, "satisfaction"))]

\* a processAnalyticsData whose count maps start with the bucket 'Unknown'
\* at 0
processAnalyticsDataSeedsUnknown(tks) ==
    LET Seeded(dist) ==
            IF \E i \in 1..Len(dist.labels) : dist.labels[i] = "Unknown" THEN dist
            ELSE [labels |-> <<"Unknown">> \o dist.labels, data |-> <<0>> \o dist.data]
    IN  [statusDistribution |->
            Seeded(CountBy([i \in 1..Len(tks) |->
                       IF tks[i].ticketStatus # "" THEN tks[i].ticketStatus
                       ELSE "Unknown"])),
         priorityDistribution |->
            Seeded(CountBy([i \in 1..Len(tks) |->
                       IF tks[i].ticketPriority # "" THEN tks[i].ticketPriority
                       ELSE "Unknown"])),
         responseTimeStats |-> calculateTimeStats(Collect(tks, "response")),
         resolutionTimeStats |-> calculateTimeStats(Collect(tks, "resolution")),
         satisfactionStats |-> calculateSatisfactionStats(Collect(tks, "satisfaction"))]

\* a processAnalyticsData whose status counts are kept by the tool from one
\* call to the next
processAnalyticsDataKeepsCounts(tks) ==
    LET fresh == [labels |-> [i \in 1..Len(tks) |->
                                 IF tks[i].ticketStatus # "" THEN tks[i].ticketStatus
                                 ELSE "Unknown"]]
        kept == IF summaries = <<>> THEN <<>>
                ELSE LET before == summaries[Len(summaries)].statusDistribution
                         RECURSIVE Repeat(_, _)
                         Repeat(label, n) ==
                             IF n = 0 THEN <<>> ELSE <<label>> \o Repeat(label, n - 1)
                         RECURSIVE Unfold(_)
                         Unfold(i) ==
                             IF i > Len(before.labels) THEN <<>>
                             ELSE Repeat(before.labels[i], before.data[i]) \o Unfold(i + 1)
                     IN  Unfold(1)
    IN  [statusDistribution |-> CountBy(kept \o fresh.labels),
         priorityDistribution |->
            CountBy([i \in 1..Len(tks) |->
                        IF tks[i].ticketPriority # "" THEN tks[i].ticketPriority
                        ELSE "Unknown"]),
         responseTimeStats |-> calculateTimeStats(Collect(tks, "response")),
         resolutionTimeStats |-> calculateTimeStats(Collect(tks, "resolution")),
         satisfactionStats |-> calculateSatisfactionStats(Collect(tks, "satisfaction"))]

\* ChartTool.processAnalyticsData
processAnalyticsData(tks) ==
    [statusDistribution |->
        CountBy([i \in 1..Len(tks) |->
                    IF tks[i].ticketStatus # "" THEN tks[i].ticketStatus ELSE "Unknown"]),
     priorityDistribution |->
        CountBy([i \in 1..Len(tks) |->
                    IF tks[i].ticketPriority # "" THEN tks[i].ticketPriority ELSE "Unknown"]),
     responseTimeStats |-> calculateTimeStats(Collect(tks, "response")),
     resolutionTimeStats |-> calculateTimeStats(Collect(tks, "resolution")),
     satisfactionStats |-> calculateSatisfactionStats(Collect(tks, "satisfaction"))]

\* ChartTool.getAnalyticsData after the store's reply: the summary, or Null
\* when the query was rejected
getAnalyticsData(reply) ==
    IF reply.kind = "data" THEN processAnalyticsData(reply.tickets) ELSE Null

\* ChartTool.getErrorChart
getErrorChart(message) ==
    [type |-> "doughnut", labels |-> <<"Error">>, data |-> <<1>>, title |-> message]

\* ChartTool.generateAnalytics after the store's reply to getAnalyticsData
generateAnalytics(reply) ==
    IF reply.kind = "data"
    THEN LET analytics == processAnalyticsData(reply.tickets)
         IN  [statusDistribution |->
                 [type |-> "doughnut",
                  labels |-> analytics.statusDistribution.labels,
                  data |-> analytics.statusDistribution.data],
              priorityDistribution |->
                 [type |-> "bar",
                  labels |-> analytics.priorityDistribution.labels,
                  data |-> analytics.priorityDistribution.data],
              responseTimeChart |->
                 [type |-> "bar",
                  labels |-> <<"Average", "Minimum", "Maximum">>,
                  data |-> <<analytics.responseTimeStats.average,
                             analytics.responseTimeStats.min,
                             analytics.responseTimeStats.max>>,
                  count |-> analytics.responseTimeStats.count],
              satisfactionChart |->
                 [type |-> "bar",
                  labels |-> analytics.satisfactionStats.labels,
                  data |-> analytics.satisfactionStats.data,
                  average |-> analytics.satisfactionStats.average]]
    ELSE getErrorChart("Failed to generate analytics")

(***************************************************************************)
(* DelegatingAgent: merge and return.                                      *)
(***************************************************************************)
TwoDigits(n) == IF n < 10 THEN "0" \o ToString(n) ELSE ToString(n)

\* Number.prototype.toFixed(2) of a number of hours
ToFixed2(ticks) ==
    LET hundredths == (2 * ticks + TicksPerHundredth) \div (2 * TicksPerHundredth)
    IN  ToString(hundredths \div 100) \o "." \o TwoDigits(hundredths % 100)

\* the header; the chart emoji that opens it is written [chart]
AnalyticsHeader == "[chart] **Analytics Dashboard:**\n"

CouldNotProcess ==
    "I couldn't find specific information for your query. Please try asking about support issues or requesting analytics."

RECURSIVE DistributionLines(_, _)
DistributionLines(labels, data) ==
    IF labels = <<>> THEN ""
    ELSE "- **" \o Head(labels) \o ":** " \o ToString(Head(data)) \o " tickets\n"
         \o DistributionLines(Tail(labels), Tail(data))

\* the analytics section of combineResults, after the header
AnalyticsText(chart) ==
    "I've generated comprehensive analytics for your support tickets:\n\n"
    \o (IF "statusDistribution" \in DOMAIN chart
        THEN "**Ticket Status Distribution:**\n"
             \o DistributionLines(chart.statusDistribution.labels,
                                  chart.statusDistribution.data)
             \o "\n"
        ELSE "")
    \o (IF "priorityDistribution" \in DOMAIN chart
        THEN "**Ticket Priority Distribution:**\n"
             \o DistributionLines(chart.priorityDistribution.labels,
                                  chart.priorityDistribution.data)
             \o "\n"
        ELSE "")
    \o (IF "responseTimeChart" \in DOMAIN chart
        THEN "**Response Time Statistics:**\n"
             \o "- **Average:** " \o ToFixed2(chart.responseTimeChart.data[1]) \o " hours\n"
             \o "- **Minimum:** " \o ToFixed2(chart.responseTimeChart.data[2]) \o " hours\n"
             \o "- **Maximum:** " \o ToFixed2(chart.responseTimeChart.data[3]) \o " hours\n\n"
        ELSE "")

\* a combineResults that gives the analytics section alone once there is a
\* chart
combineResultsChartOnly(rag, chart) ==
    LET ragText == IF rag # Null /\ rag.answer # "" THEN rag.answer ELSE ""
        text == IF chart # Null THEN AnalyticsHeader \o AnalyticsText(chart)
                ELSE ragText
    IN  [answer |-> Trim(IF text # "" THEN text ELSE CouldNotProcess)]

\* a combineResults that leaves the header of the analytics section out
combineResultsWithoutHeader(rag, chart) ==
    LET ragText == IF rag # Null /\ rag.answer # "" THEN rag.answer ELSE ""
        text == IF chart # Null
                THEN (IF ragText # "" THEN ragText \o "\n\n" ELSE "")
                     \o AnalyticsText(chart)
                ELSE ragText
    IN  [answer |-> Trim(IF text # "" THEN text ELSE CouldNotProcess)]

\* combineResults without its "no results from either tool" message
combineResultsNoDefault(rag, chart) ==
    LET ragText == IF rag # Null /\ rag.answer # "" THEN rag.answer ELSE ""
    IN  [answer |-> Trim(IF chart # Null
                         THEN (IF ragText # "" THEN ragText \o "\n\n" \o AnalyticsHeader
                               ELSE AnalyticsHeader) \o AnalyticsText(chart)
                         ELSE ragText)]

\* a combineResults that gives its fixed message only when no tool ran
combineResultsDefaultWhenNothingRan(rag, chart) ==
    LET ragText == IF rag # Null /\ rag.answer # "" THEN rag.answer ELSE ""
        text == IF chart # Null
                THEN (IF ragText # "" THEN ragText \o "\n\n" \o AnalyticsHeader
                      ELSE AnalyticsHeader)
                     \o AnalyticsText(chart)
                ELSE ragText
    IN  [answer |-> Trim(IF rag = Null /\ chart = Null THEN CouldNotProcess ELSE text)]

\* a combineResults that puts the analytics section before the retrieval
\* text
combineResultsAnalyticsFirst(rag, chart) ==
    LET ragText == IF rag # Null /\ rag.answer # "" THEN rag.answer ELSE ""
        text == IF chart # Null
                THEN AnalyticsHeader \o AnalyticsText(chart)
                     \o (IF ragText # "" THEN "\n\n" \o ragText ELSE "")
                ELSE ragText
    IN  [answer |-> Trim(IF text # "" THEN text ELSE CouldNotProcess)]

\* DelegatingAgent.combineResults
combineResults(rag, chart) ==
    LET ragText == IF rag # Null /\ rag.answer # "" THEN rag.answer ELSE ""
        text == IF chart # Null
                THEN (IF ragText # "" THEN ragText \o "\n\n" \o AnalyticsHeader
                      ELSE AnalyticsHeader)
                     \o AnalyticsText(chart)
                ELSE ragText
    IN  [answer |-> Trim(IF text # "" THEN text ELSE CouldNotProcess)]

\* a handleQuery that returns no chart, as its catch block does
handleQueryReturnWithoutChart(finalResponse, refs, chart) ==
    [answer |-> finalResponse.answer, references |-> refs, chart |-> Null]

\* a handleQuery that hands on what combineResults returned
handleQueryReturnsCombined(finalResponse, refs, chart) == finalResponse

\* the object handleQuery returns from its try block
handleQueryReturn(finalResponse, refs, chart) ==
    [answer |-> finalResponse.answer, references |-> refs, chart |-> chart]

(***************************************************************************)
(* The steps of one handleQuery call.                                      *)
(***************************************************************************)
needsRAG == Truthy(Get(analysis, "needsRAG"))

\* a dispatch that reads needsRAG for the analytics tool too
needsChartReadsNeedsRAG == Truthy(Get(analysis, "needsRAG"))

needsChart == Truthy(Get(analysis, "needsChart"))

\* const analysis = await this.analyzeQueryRequirements(userQuery)
AnalyzeQueryRequirements ==
    /\ pc = "analyze"
    /\ analysis' = analyzeQueryRequirements(userQuery, classifierReply)
    /\ references' = [threadId |-> threadId]
    /\ pc' = "rag"
    /\ invoked' = Append(invoked, "classifier")
    /\ UNCHANGED <<importer, inputs, scans, threads, calls, tickets, ragResult, chartResult, result>>

\* if (analysis.needsRAG): this.ragAgent.handleQuery(userQuery, tenant)
ExecuteRAG ==
    /\ pc = "rag"
    /\ needsRAG
    /\ pc' = "tier1"
    /\ invoked' = Append(invoked, "retrieval")
    /\ UNCHANGED <<importer, inputs, scans, threads, analysis, calls, tickets, ragResult, chartResult,
                   references, result>>

SkipRAG ==
    /\ pc = "rag"
    /\ ~needsRAG
    /\ pc' = "chart"
    /\ UNCHANGED <<importer, inputs, scans, threads, invoked, analysis, calls, tickets, ragResult, chartResult,
                   references, result>>

\* what the store makes of a query: of the tickets that match, the first
\* `limit`, or all of them when the query sets no limit (limit 0)
Answer(reply, call) ==
    IF reply.kind = "data" /\ call.limit > 0 /\ Len(reply.tickets) > call.limit
    THEN [reply EXCEPT !.tickets = SubSeq(reply.tickets, 1, call.limit)]
    ELSE reply

\* where a tier's outcome leads
PcAfter(next) ==
    CASE next = "fallbackSearch" -> "tier2"
      [] next = "fetchObjectsFallback" -> "tier3"
      [] OTHER -> "generate"

\* RAGAgent.searchTickets: the Tier 1 query and what follows from its reply
SearchTickets ==
    /\ pc = "tier1"
    /\ calls' = Append(calls, SemanticQuery(userQuery, tenant, requestedLimit))
    /\ tickets' = searchTickets(Answer(storeReply.tier1, calls'[Len(calls')])).tickets
    /\ pc' = PcAfter(searchTickets(Answer(storeReply.tier1, calls'[Len(calls')])).next)
    /\ UNCHANGED <<importer, inputs, scans, threads, invoked, analysis, ragResult, chartResult, references, result>>

\* RAGAgent.fallbackSearch: the Tier 2 query and what follows from its reply
FallbackSearch ==
    /\ pc = "tier2"
    /\ calls' = Append(calls, StructuredQuery(userQuery, tenant, requestedLimit))
    /\ tickets' = fallbackSearch(Answer(storeReply.tier2, calls'[Len(calls')])).tickets
    /\ pc' = PcAfter(fallbackSearch(Answer(storeReply.tier2, calls'[Len(calls')])).next)
    /\ UNCHANGED <<importer, inputs, scans, threads, invoked, analysis, ragResult, chartResult, references, result>>

\* RAGAgent.fetchObjectsFallback: the Tier 3 query and what follows
FetchObjectsFallback ==
    /\ pc = "tier3"
    /\ calls' = Append(calls, RawQuery(userQuery, tenant, requestedLimit))
    /\ tickets' = fetchObjectsFallback(Answer(storeReply.tier3, calls'[Len(calls')])).tickets
    /\ pc' = PcAfter(fetchObjectsFallback(Answer(storeReply.tier3, calls'[Len(calls')])).next)
    /\ UNCHANGED <<importer, inputs, scans, threads, invoked, analysis, ragResult, chartResult, references, result>>

\* RAGAgent.generateResponse, RAGAgent.handleQuery's return, and
\* handleQuery taking the ticket references over
GenerateResponse ==
    /\ pc = "generate"
    /\ ragResult' = generateResponse(userQuery, tickets, generatorReply)
    /\ references' = [threadId |-> threadId,
                      ticketIds |-> ragResult'.references.ticketIds]
    /\ pc' = "chart"
    /\ invoked' = invoked \o generateResponseCalls(tickets)
    /\ UNCHANGED <<importer, inputs, scans, threads, analysis, calls, tickets, chartResult, result>>

\* if (analysis.needsChart): this.chartTool.generateAnalytics(tenant)
ExecuteChart ==
    /\ pc = "chart"
    /\ needsChart
    /\ chartResult' = generateAnalytics(analyticsReply)
    /\ pc' = "combine"
    /\ invoked' = Append(invoked, "analytics")
    /\ summaries' = Append(summaries, getAnalyticsData(analyticsReply))
    /\ charts' = Append(charts, chartResult')
    /\ UNCHANGED <<importer, inputs, threads, analysis, calls, tickets, ragResult, references,
                   result>>

SkipChart ==
    /\ pc = "chart"
    /\ ~needsChart
    /\ pc' = "combine"
    /\ UNCHANGED <<importer, inputs, scans, threads, invoked, analysis, calls, tickets, ragResult, chartResult,
                   references, result>>

\* combineResults and the return of handleQuery
CombineResults ==
    /\ pc = "combine"
    /\ result' = handleQueryReturn(combineResults(ragResult, chartResult),
                                   references, chartResult)
    /\ pc' = "done"
    /\ UNCHANGED <<importer, inputs, scans, threads, invoked, analysis, calls, tickets, ragResult, chartResult,
                   references>>

(***************************************************************************)
(* The inputs: queries, and the replies of the classifier, the generator   *)
(* and the ticket store.                                                   *)
(***************************************************************************)
Data(tks) == [kind |-> "data", tickets |-> tks, message |-> "", code |-> ""]
Errors(message) == [kind |-> "errors", tickets |-> <<>>, message |-> message, code |-> ""]
Throw(message, code) == [kind |-> "throw", tickets |-> <<>>, message |-> message, code |-> code]

Content(c) == [kind |-> "content", content |-> c, message |-> ""]
Failure(message) == [kind |-> "throw", content |-> <<>>, message |-> message]
NonString == [kind |-> "nonstring", content |-> <<>>, message |-> ""]

Text(c) == [kind |-> "content", content |-> c, message |-> ""]
TextFailure(message) == [kind |-> "throw", content |-> "", message |-> message]
TextNonString == [kind |-> "nonstring", content |-> "", message |-> ""]

Tenants == {"", "iPhone"}
\* the third argument of handleQuery as the caller writes it
ThreadArgs == {"undefined", "thread-7"}

\* the default of the parameter: threadId = "default"
ThreadParameter(arg) == IF arg = "undefined" THEN "default" ELSE arg

ThreadIds == {ThreadParameter(arg) : arg \in ThreadArgs}

Products == <<"GoPro Hero", "iPhone">>
Subjects == <<"Battery drains fast", "Camera not recording", "Setup help">>
Statuses == <<"Open", "Closed", "Pending Customer Response">>
Priorities == <<"High", "", "Low">>
Resolutions == <<"Replace the battery and update the firmware.", "">>

RECURSIVE Repeat(_, _)
Repeat(s, n) == IF n = 0 THEN "" ELSE s \o Repeat(s, n - 1)

Descriptions ==
    <<"The battery is empty after one hour.", "",
      Repeat("The camera stops recording after a minute. ", 4)>>

\* a text of n characters
Filler(n) == SubSeq(Repeat("The camera stops recording after a minute. ", 6), 1, n)

\* tickets with a description and a resolution of a length at, under and
\* over the place where the template cuts them
LongTickets ==
    {[ticketId |-> "TKT-2001", ticketSubject |-> "Camera not recording",
      ticketDescription |-> Filler(d), resolution |-> Filler(r),
      ticketStatus |-> "Open", ticketPriority |-> "High",
      productPurchased |-> "GoPro Hero"] :
        d \in {0, MaxDescription - 1, MaxDescription, MaxDescription + 1,
               MaxResolution + 1},
        r \in {0, MaxResolution - 1, MaxResolution, MaxResolution + 1}}

\* the i-th ticket of the store; with a tenant the store returns only
\* tickets of that product
Ticket(i, t) ==
    [ticketId |-> "TKT-" \o ToString(1000 + i),
     ticketSubject |-> Subjects[((i - 1) % 3) + 1],
     ticketDescription |-> Descriptions[((i - 1) % 3) + 1],
     resolution |-> Resolutions[((i - 1) % 2) + 1],
     ticketStatus |-> Statuses[((i - 1) % 3) + 1],
     ticketPriority |-> Priorities[((i - 1) % 3) + 1],
     productPurchased |-> IF t # "" THEN t ELSE Products[((i - 1) % 2) + 1]]

TicketRange(a, b, t) == [i \in 1..(b - a + 1) |-> Ticket(a + i - 1, t)]

\* the ticket sequences a tier's query can return, the empty one included
TicketLists(t) == {TicketRange(a, b, t) : a \in 1..MaxTickets, b \in 0..MaxTickets}

Tier1Replies(t) ==
    {Data(tks) : tks \in TicketLists(t)}
    \cup {Errors("remote client vectorize: connection to: t2v-transformers failed"),
          Errors("explorer: get class: schema not found"),
          Errors("explorer: upstream fetch failed"),
          Errors("vectorize: connect ECONNREFUSED 10.0.0.2:8080")}
    \cup {Throw("connect ECONNREFUSED 127.0.0.1:8080", "ECONNREFUSED"),
          Throw("fetch failed", ""),
          Throw("", "ECONNREFUSED"),
          Throw("dial tcp: lookup t2v-transformers: no such host", ""),
          Throw("vectorize: fetch failed", ""),
          Throw("Internal Server Error", ""),
          Throw("", "")}

Tier2Replies(t) ==
    {Data(tks) : tks \in TicketLists(t)}
    \cup {Throw("fetch failed", ""), Throw("Internal Server Error", ""),
          Throw("", "ECONNREFUSED")}

Tier3Replies(t) ==
    {Data(tks) : tks \in TicketLists(t)} \cup {Throw("withWhere is not a function", "")}

StoreReplies(t) ==
    [tier1 : Tier1Replies(t), tier2 : Tier2Replies(t), tier3 : Tier3Replies(t)]

\* a small choice of store behaviours for a whole call: Tier 1 answers;
\* Tier 1 lacks its embedding service and Tier 2 answers; Tiers 1 and 2 come
\* to nothing and Tier 3 answers; every tier fails; the store is down
SomeStoreReplies(t) ==
    {[tier1 |-> Data(TicketRange(1, 2, t)), tier2 |-> Data(<<>>), tier3 |-> Data(<<>>)],
     [tier1 |-> Throw("dial tcp: lookup t2v-transformers: no such host", ""),
      tier2 |-> Data(TicketRange(2, 3, t)), tier3 |-> Data(<<>>)],
     [tier1 |-> Errors("explorer: get class: schema not found"),
      tier2 |-> Data(<<>>), tier3 |-> Data(TicketRange(3, 3, t))],
     [tier1 |-> Throw("Internal Server Error", ""),
      tier2 |-> Throw("Internal Server Error", ""),
      tier3 |-> Throw("withWhere is not a function", "")],
     [tier1 |-> Throw("connect ECONNREFUSED 127.0.0.1:8080", "ECONNREFUSED"),
      tier2 |-> Throw("fetch failed", ""), tier3 |-> Data(<<>>)]}

GeneratorReplies ==
    {Text("  Ticket TKT-1001 suggests replacing the battery.\n"), Text(" \n"),
     TextFailure("429 Too Many Requests"), TextFailure(""), TextNonString}

SomeGeneratorReplies ==
    {Text("  Ticket TKT-1001 suggests replacing the battery.\n"), Text(" \n"),
     TextFailure("429 Too Many Requests")}

ResponseTimes == <<"2023-06-01T12:15:00Z", "", "2023-06-01T08:40:00Z">>
ResolutionHours == <<5, 0, 12>>
Ratings == <<3, 0, 5>>

AnalyticsTicket(i) ==
    [ticketStatus |-> Statuses[((i - 1) % 2) + 1],
     ticketPriority |-> Priorities[((i - 1) % 3) + 1],
     firstResponseTime |-> ResponseTimes[((i - 1) % 3) + 1],
     timeToResolution |-> ResolutionHours[((i - 1) % 3) + 1],
     customerSatisfactionRating |-> Ratings[((i - 1) % 3) + 1]]

AnalyticsReplies ==
    {Data([i \in 1..n |-> AnalyticsTicket(i)]) : n \in 0..MaxAnalytics}
    \cup {Throw("fetch failed", "")}

\* tickets for the scan: with and without a status, a priority, a response
\* time that parses, a resolution time and a rating
AnalyticsPool ==
    <<[ticketStatus |-> "Open", ticketPriority |-> "High",
       firstResponseTime |-> "2023-06-01T12:15:00Z",
       timeToResolution |-> 5, customerSatisfactionRating |-> 3],
      [ticketStatus |-> "Closed", ticketPriority |-> "",
       firstResponseTime |-> "",
       timeToResolution |-> 0, customerSatisfactionRating |-> 0],
      [ticketStatus |-> "", ticketPriority |-> "Low",
       firstResponseTime |-> "2023-06-01T08:40:00Z",
       timeToResolution |-> 12, customerSatisfactionRating |-> 5],
      [ticketStatus |-> "Open", ticketPriority |-> "Low",
       firstResponseTime |-> "n/a",
       timeToResolution |-> 0, customerSatisfactionRating |-> 4],
      [ticketStatus |-> "Unknown", ticketPriority |-> "Unknown",
       firstResponseTime |-> "2023-06-01T00:00:00Z",
       timeToResolution |-> 1, customerSatisfactionRating |-> 0]>>

RECURSIVE AnalyticsLists(_)
AnalyticsLists(n) ==
    IF n = 0 THEN {<<>>}
    ELSE AnalyticsLists(n - 1)
         \cup {Append(l, AnalyticsPool[i]) :
                  l \in AnalyticsLists(n - 1), i \in 1..Len(AnalyticsPool)}

AnalyticsScans ==
    {Data(l) : l \in AnalyticsLists(MaxAnalytics)} \cup {Throw("fetch failed", "")}

SomeAnalyticsReplies ==
    {Data([i \in 1..MaxAnalytics |-> AnalyticsTicket(i)]), Data(<<>>),
     Throw("fetch failed", "")}

\* the replies of the classifier, built of pieces
Pieces ==
    {<<LBrace>>, <<RBrace>>, <<Prose>>, <<Comma>>,
     <<Pair("needsRAG", "false"), Comma, Pair("needsChart", "true")>>,
     <<Pair("needsChart", "true")>>,
     <<Pair("needsRAG", "\"no\""), Comma, Pair("needsChart", "1")>>}

RECURSIVE Contents(_)
Contents(n) ==
    IF n = 0 THEN {<<>>}
    ELSE Contents(n - 1) \cup {c \o p : c \in Contents(n - 1), p \in Pieces}

ClassifierFailures ==
    {Failure("429 Too Many Requests"), Failure("network down"), Failure("")}

ClassifierReplies ==
    {Content(c) : c \in Contents(MaxPieces)} \cup {NonString} \cup ClassifierFailures

SomeClassifierReplies ==
    {Content(<<Prose, LBrace, Pair("needsRAG", "true"), Comma,
               Pair("needsChart", "true"), RBrace>>),
     Content(<<LBrace, Pair("needsRAG", "false"), Comma,
               Pair("needsChart", "true"), RBrace>>),
     Content(<<Prose>>),
     Content(<<LBrace, Pair("needsRAG", "\"no\""), Comma,
               Pair("needsChart", "1"), RBrace>>),
     Failure("quota exceeded")}

Words == {"Fix", "chart", "Show", "stats", "hello"}

RECURSIVE Queries(_)
Queries(n) ==
    IF n = 1 THEN Words
    ELSE Queries(n - 1) \cup {q \o " " \o w : q \in Queries(n - 1), w \in Words}

\* queries for the keyword search: words short and long, in either case,
\* set apart by one white-space character or several, white space in front
Tokens == {"Fix", "my", "BATTERY"}

Separators == {" ", " \t "}

RECURSIVE TokenQueries(_)
TokenQueries(n) ==
    IF n = 1 THEN Tokens \cup {" " \o w : w \in Tokens}
    ELSE TokenQueries(n - 1)
         \cup {q \o sep \o w : q \in TokenQueries(n - 1), sep \in Separators, w \in Tokens}

SomeQueries ==
    {"How do I fix my battery issue", "Show me ticket statistics",
     "Common camera issues and analytics", "hello there"}

(***************************************************************************)
(* The RAGAgent of ragAgent.js.  Its handleQuery runs a tool-calling agent *)
(* whose checkpoint saver, this.memory, is made once in the constructor    *)
(* and keeps the messages of a conversation under the thread_id of the     *)
(* call: an invoke loads what the saver holds under that thread_id and     *)
(* stores the conversation back under it.  A message carries the threadId  *)
(* of the request that wrote it.                                           *)
(***************************************************************************)
AgentMessages(content) == [kind |-> "messages", content |-> content, message |-> ""]

AgentThrow(message) == [kind |-> "throw", content |-> "", message |-> message]

\* what this.agent.invoke does
AgentReplies ==
    {AgentMessages("Ticket TKT-1001 suggests replacing the battery."),
     AgentThrow("429 Too Many Requests")}

AgentErrorAnswer ==
    "I encountered an error while searching for support tickets. Please try again."

\* a handleQuery whose catch returns the error alone in its references
agentHandleQueryErrorWithoutThread(thread, reply) ==
    IF reply.kind = "messages"
    THEN [answer |-> reply.content, references |-> [threadId |-> thread]]
    ELSE [answer |-> AgentErrorAnswer, references |-> [error |-> reply.message]]

\* RAGAgent.handleQuery of ragAgent.js, after this.agent.invoke
agentHandleQuery(thread, reply) ==
    IF reply.kind = "messages"
    THEN [answer |-> reply.content, references |-> [threadId |-> thread]]
    ELSE [answer |-> AgentErrorAnswer,
          references |-> [threadId |-> thread, error |-> reply.message]]

\* the saver after an invoke under a thread_id; an invoke that throws may or
\* may not have stored its input before
Saved(thread, query, by, stored) ==
    IF stored
    THEN [memory EXCEPT ![thread] = Append(@, [query |-> query, by |-> by])]
    ELSE memory

\* a caller of RAGAgent.handleQuery(userQuery, tenant, threadId) of ragAgent.js
AgentHandleQuery ==
    /\ Len(agentResults) < MaxAgentCalls
    /\ \E arg \in ThreadArgs, reply \in AgentReplies, stored \in BOOLEAN :
          LET thread == ThreadParameter(arg)
          IN  /\ reply.kind = "messages" => stored
              /\ agentResults' =
                     Append(agentResults,
                            [passed |-> arg, loaded |-> memory[thread],
                             result |-> agentHandleQuery(thread, reply)])
              /\ memory' = Saved(thread, "What are iPhone issues?", thread, stored)
    /\ UNCHANGED <<importer, inputs, scans, loaded, requests, pc, analysis, calls, invoked,
                   tickets, ragResult, chartResult, references, result>>

\* handleQuery: if (analysis.needsRAG), with the RAGAgent of ragAgent.js:
\* this.ragAgent.handleQuery(userQuery, tenant) passes no threadId
ExecuteRAGAgent ==
    /\ pc = "rag"
    /\ needsRAG
    /\ \E reply \in AgentReplies, stored \in BOOLEAN :
          LET thread == ThreadParameter("undefined")
          IN  /\ reply.kind = "messages" => stored
              /\ ragResult' = agentHandleQuery(thread, reply)
              /\ loaded' = memory[thread]
              /\ memory' = Saved(thread, userQuery, threadId, stored)
    /\ references' = references
    /\ invoked' = Append(invoked, "retrieval")
    /\ pc' = "chart"
    /\ UNCHANGED <<importer, inputs, scans, agentResults, requests, analysis, calls, tickets,
                   chartResult, result>>

\* POST /query: the server takes the next request, the agents as they are
NextRequest ==
    /\ pc = "done"
    /\ requests < MaxRequests
    /\ requests' = requests + 1
    /\ userQuery' \in {"How do I fix my battery issue", "show ticket statistics"}
    /\ threadId' \in ThreadIds
    /\ pc' = "analyze"
    /\ analysis' = Null
    /\ calls' = <<>>
    /\ invoked' = <<>>
    /\ tickets' = <<>>
    /\ ragResult' = Null
    /\ chartResult' = Null
    /\ loaded' = <<>>
    /\ references' = Null
    /\ result' = Null
    /\ UNCHANGED <<importer, tenant, requestedLimit, classifierReply, storeReply, generatorReply,
                   analyticsReply, scans, memory, agentResults>>

(***************************************************************************)
(* importData of import_data.js: the rows of the CSV file are read from a  *)
(* stream, gathered in currentBatch and handed to the store batch by       *)
(* batch.  A row is written as its number in the file.                     *)
(***************************************************************************)
\* the rows of a batch; the source gathers 50
batchSize == 2

\* the most rows a file holds
MaxRows == 7

\* a stream whose pause is not heeded
pauseIgnored(s) == s

\* stream.pause(): a paused stream emits no 'data'
pause(s) == [s EXCEPT !.flowing = FALSE]

\* stream.resume()
resume(s) == [s EXCEPT !.flowing = TRUE]

\* a sequence without its i-th element
Without(seq, i) == SubSeq(seq, 1, i - 1) \o SubSeq(seq, i + 1, Len(seq))

\* no import is running
ImporterIdle ==
    /\ csvRows = 0
    /\ delivered = 0
    /\ stream = [flowing |-> FALSE, ended |-> FALSE]
    /\ currentBatch = <<>>
    /\ isPaused = FALSE
    /\ inFlight = <<>>
    /\ batches = <<>>
    /\ timers = 0
    /\ totalProcessed = 0
    /\ successCount = 0
    /\ errorCount = 0
    /\ rejections = 0
    /\ importPc = "idle"

\* stream.on('data'): the next row is pushed; a full batch pauses the stream
\* and a copy of it goes to processBatch, which hands it to the batcher
OnData ==
    /\ importPc = "reading"
    /\ stream.flowing
    /\ delivered < csvRows
    /\ delivered' = delivered + 1
    /\ currentBatch' = Append(currentBatch, delivered + 1)
    /\ IF Len(currentBatch') >= batchSize
       THEN /\ isPaused' = TRUE
            /\ stream' = pause(stream)
            /\ inFlight' = Append(inFlight, currentBatch')
            /\ batches' = Append(batches, currentBatch')
       ELSE UNCHANGED <<isPaused, stream, inFlight, batches>>
    /\ UNCHANGED <<agents, csvRows, timers, totalProcessed, successCount, errorCount,
                   rejections, importPc>>

\* .then of processBatch: the counters grow by the length currentBatch has
\* now, the batch is cleared, the resume is set for later
BatchResolved ==
    /\ \E i \in 1..Len(inFlight) : inFlight' = Without(inFlight, i)
    /\ totalProcessed' = totalProcessed + Len(currentBatch)
    /\ successCount' = successCount + Len(currentBatch)
    /\ currentBatch' = <<>>
    /\ timers' = timers + 1
    /\ UNCHANGED <<agents, csvRows, delivered, stream, isPaused, batches, errorCount,
                   rejections, importPc>>

\* .catch of processBatch: batcher.do() threw
BatchRejected ==
    /\ \E i \in 1..Len(inFlight) : inFlight' = Without(inFlight, i)
    /\ errorCount' = errorCount + Len(currentBatch)
    /\ rejections' = rejections + 1
    /\ currentBatch' = <<>>
    /\ timers' = timers + 1
    /\ UNCHANGED <<agents, csvRows, delivered, stream, isPaused, batches, totalProcessed,
                   successCount, importPc>>

\* the callback of setTimeout(..., 10)
Resume ==
    /\ timers >= 1
    /\ timers' = timers - 1
    /\ isPaused' = FALSE
    /\ stream' = resume(stream)
    /\ UNCHANGED <<agents, csvRows, delivered, currentBatch, inFlight, batches,
                   totalProcessed, successCount, errorCount, rejections, importPc>>

\* stream.on('end'): the stream has emitted its last row.  The handler
\* provides for an 'end' that comes while a batch is pending, and so does
\* this action.
OnEnd ==
    /\ importPc = "reading"
    /\ delivered = csvRows
    /\ stream' = [stream EXCEPT !.ended = TRUE]
    /\ importPc' = "waiting"
    /\ UNCHANGED <<agents, csvRows, delivered, currentBatch, isPaused, inFlight, batches,
                   timers, totalProcessed, successCount, errorCount, rejections>>

\* the handler of 'end' past its wait: while (isPaused) is over and the rows
\* left in currentBatch go to processBatch, or there are none
ProcessRemaining ==
    /\ importPc = "waiting"
    /\ ~isPaused
    /\ IF Len(currentBatch) > 0
       THEN /\ batches' = Append(batches, currentBatch)
            /\ importPc' = "final"
       ELSE /\ importPc' = "resolved"
            /\ UNCHANGED batches
    /\ UNCHANGED <<agents, csvRows, delivered, stream, currentBatch, isPaused, inFlight,
                   timers, totalProcessed, successCount, errorCount, rejections>>

\* the handler of 'end' after await processBatch(currentBatch)
FinalResolved ==
    /\ importPc = "final"
    /\ totalProcessed' = totalProcessed + Len(currentBatch)
    /\ successCount' = successCount + Len(currentBatch)
    /\ importPc' = "resolved"
    /\ UNCHANGED <<agents, csvRows, delivered, stream, currentBatch, isPaused, inFlight,
                   batches, timers, errorCount, rejections>>

\* the handler of 'end' when processBatch(currentBatch) threw: reject(error)
FinalRejected ==
    /\ importPc = "final"
    /\ rejections' = rejections + 1
    /\ importPc' = "rejected"
    /\ UNCHANGED <<agents, csvRows, delivered, stream, currentBatch, isPaused, inFlight,
                   batches, timers, totalProcessed, successCount, errorCount>>

(***************************************************************************)
(* Specifications.                                                         *)
(***************************************************************************)
Start ==
    /\ pc = "analyze"
    /\ analysis = Null
    /\ calls = <<>>
    /\ invoked = <<>>
    /\ tickets = <<>>
    /\ ragResult = Null
    /\ chartResult = Null
    /\ summaries = <<>>
    /\ charts = <<>>
    /\ memory = [t \in ThreadIds |-> <<>>]
    /\ loaded = <<>>
    /\ agentResults = <<>>
    /\ requestedLimit = DefaultLimit
    /\ requests = 1
    /\ references = Null
    /\ result = Null
    /\ ImporterIdle

\* one whole call of DelegatingAgent.handleQuery
Init ==
    /\ userQuery \in SomeQueries
    /\ tenant \in Tenants
    /\ threadId \in ThreadIds
    /\ classifierReply \in SomeClassifierReplies
    /\ storeReply \in SomeStoreReplies(tenant)
    /\ generatorReply \in SomeGeneratorReplies
    /\ analyticsReply \in SomeAnalyticsReplies
    /\ Start

Next ==
    \/ AnalyzeQueryRequirements
    \/ ExecuteRAG
    \/ SkipRAG
    \/ SearchTickets
    \/ FallbackSearch
    \/ FetchObjectsFallback
    \/ GenerateResponse
    \/ ExecuteChart
    \/ SkipChart
    \/ CombineResults

Spec == Init /\ [][Next]_vars

\* the classifier on its own: every query with a failing classifier, and a
\* few queries with every reply
InitClassify ==
    /\ \/ userQuery \in Queries(MaxWords) /\ classifierReply \in ClassifierFailures
       \/ userQuery \in SomeQueries /\ classifierReply \in ClassifierReplies
    /\ tenant = ""
    /\ threadId = "default"
    /\ storeReply \in [tier1 : {Data(<<>>)}, tier2 : {Data(<<>>)}, tier3 : {Data(<<>>)}]
    /\ generatorReply = TextFailure("")
    /\ analyticsReply = Data(<<>>)
    /\ Start

NextClassify == AnalyzeQueryRequirements

SpecClassify == InitClassify /\ [][NextClassify]_vars

\* answer synthesis on its own: generateResponse on what the search returned
InitSynthesize ==
    /\ userQuery \in SomeQueries
    /\ tenant \in Tenants
    /\ threadId = "default"
    /\ classifierReply \in
          {Content(<<Prose>>),
           Content(<<LBrace, Pair("needsRAG", "true"), Comma,
                     Pair("needsChart", "true"), RBrace>>)}
    /\ storeReply \in
          [tier1 : {Data(tks) : tks \in TicketLists(tenant) \cup
                        {TicketRange(1, n, tenant) : n \in 0..MaxRetrieved}},
           tier2 : {Data(<<>>)}, tier3 : {Data(<<>>)}]
    /\ generatorReply \in GeneratorReplies
    /\ analyticsReply = Data(<<>>)
    /\ pc = "generate"
    /\ analysis = analyzeQueryRequirements(userQuery, classifierReply)
    /\ calls = <<SemanticQuery(userQuery, tenant, DefaultLimit)>>
    /\ invoked = <<"classifier", "retrieval">>
    /\ tickets = storeReply.tier1.tickets
    /\ ragResult = Null
    /\ chartResult = Null
    /\ summaries = <<>>
    /\ charts = <<>>
    /\ memory = [t \in ThreadIds |-> <<>>]
    /\ loaded = <<>>
    /\ agentResults = <<>>
    /\ requestedLimit = DefaultLimit
    /\ requests = 1
    /\ references = [threadId |-> threadId]
    /\ result = Null
    /\ ImporterIdle

\* synthesis and the rest of the handleQuery call
NextSynthesize ==
    \/ GenerateResponse
    \/ ExecuteChart
    \/ SkipChart
    \/ CombineResults

SpecSynthesize == InitSynthesize /\ [][NextSynthesize]_vars

\* classifier errors with each of the four quota marks and without any
QuotaFailures ==
    {Failure("429"), Failure("Too Many Requests"), Failure("quota exceeded"),
     Failure("rate limit reached"), Failure("network down"), Failure("")}

\* the whole call after a failure of the classifier, for every query
InitQuota ==
    /\ userQuery \in Queries(MaxWords)
    /\ tenant = ""
    /\ threadId = "default"
    /\ classifierReply \in QuotaFailures
    /\ storeReply \in SomeStoreReplies(tenant)
    /\ generatorReply = TextFailure("")
    /\ analyticsReply = Data(<<>>)
    /\ Start

SpecQuota == InitQuota /\ [][Next]_vars

\* one run of importData on a file of any number of rows
InitImport ==
    /\ userQuery = ""
    /\ tenant = ""
    /\ threadId = "default"
    /\ classifierReply = Failure("")
    /\ storeReply = [tier1 |-> Data(<<>>), tier2 |-> Data(<<>>), tier3 |-> Data(<<>>)]
    /\ generatorReply = TextFailure("")
    /\ analyticsReply = Data(<<>>)
    /\ pc = "analyze"
    /\ analysis = Null
    /\ calls = <<>>
    /\ invoked = <<>>
    /\ tickets = <<>>
    /\ ragResult = Null
    /\ chartResult = Null
    /\ summaries = <<>>
    /\ charts = <<>>
    /\ memory = [t \in ThreadIds |-> <<>>]
    /\ loaded = <<>>
    /\ agentResults = <<>>
    /\ requestedLimit = DefaultLimit
    /\ requests = 1
    /\ references = Null
    /\ result = Null
    /\ csvRows \in 0..MaxRows
    /\ delivered = 0
    /\ stream = [flowing |-> TRUE, ended |-> FALSE]
    /\ currentBatch = <<>>
    /\ isPaused = FALSE
    /\ inFlight = <<>>
    /\ batches = <<>>
    /\ timers = 0
    /\ totalProcessed = 0
    /\ successCount = 0
    /\ errorCount = 0
    /\ rejections = 0
    /\ importPc = "reading"

NextImport ==
    \/ OnData
    \/ BatchResolved
    \/ BatchRejected
    \/ Resume
    \/ OnEnd
    \/ ProcessRemaining
    \/ FinalResolved
    \/ FinalRejected

SpecImport == InitImport /\ [][NextImport]_vars

\* the template answer on its own: the generator fails on tickets whose
\* texts are short and long
InitTemplate ==
    /\ userQuery = "Camera stops recording"
    /\ tenant = ""
    /\ threadId = "default"
    /\ classifierReply \in
          {Content(<<Prose>>),
           Content(<<LBrace, Pair("needsRAG", "true"), Comma,
                     Pair("needsChart", "true"), RBrace>>)}
    /\ storeReply \in
          [tier1 : {Data(<<a>>) : a \in LongTickets}
                   \cup {Data(<<a, b>>) : a \in LongTickets, b \in LongTickets},
           tier2 : {Data(<<>>)}, tier3 : {Data(<<>>)}]
    /\ generatorReply = TextFailure("429 Too Many Requests")
    /\ analyticsReply = Data(<<>>)
    /\ pc = "generate"
    /\ analysis = analyzeQueryRequirements(userQuery, classifierReply)
    /\ calls = <<SemanticQuery(userQuery, tenant, DefaultLimit)>>
    /\ invoked = <<"classifier", "retrieval">>
    /\ tickets = storeReply.tier1.tickets
    /\ ragResult = Null
    /\ chartResult = Null
    /\ summaries = <<>>
    /\ charts = <<>>
    /\ memory = [t \in ThreadIds |-> <<>>]
    /\ loaded = <<>>
    /\ agentResults = <<>>
    /\ requestedLimit = DefaultLimit
    /\ requests = 1
    /\ references = [threadId |-> threadId]
    /\ result = Null
    /\ ImporterIdle

SpecTemplate == InitTemplate /\ [][NextSynthesize]_vars

\* the search cascade on its own, from the call of searchTickets on
\* the analytics tool alone: the call has reached the dispatch of ChartTool
InitAnalytics ==
    /\ userQuery \in {"show ticket statistics", "chart of priorities"}
    /\ tenant \in Tenants
    /\ threadId = "default"
    /\ classifierReply = Content(<<LBrace, Pair("needsRAG", "false"), Comma,
                                   Pair("needsChart", "true"), RBrace>>)
    /\ storeReply = [tier1 |-> Data(<<>>), tier2 |-> Data(<<>>), tier3 |-> Data(<<>>)]
    /\ generatorReply = Text(" \n")
    /\ analyticsReply \in AnalyticsScans
    /\ pc = "chart"
    /\ analysis = analyzeQueryRequirements(userQuery, classifierReply)
    /\ calls = <<>>
    /\ invoked = <<"classifier">>
    /\ tickets = <<>>
    /\ ragResult = Null
    /\ chartResult = Null
    /\ summaries = <<>>
    /\ charts = <<>>
    /\ memory = [t \in ThreadIds |-> <<>>]
    /\ loaded = <<>>
    /\ agentResults = <<>>
    /\ requestedLimit = DefaultLimit
    /\ requests = 1
    /\ references = [threadId |-> threadId]
    /\ result = Null
    /\ ImporterIdle

\* one more call of generateAnalytics with the same tenant, the store as it was
GenerateAnalyticsAgain ==
    /\ pc \in {"combine", "done"}
    /\ Len(charts) >= 1
    /\ Len(charts) < MaxScans
    /\ charts' = Append(charts, generateAnalytics(analyticsReply))
    /\ summaries' = Append(summaries, getAnalyticsData(analyticsReply))
    /\ UNCHANGED <<importer, inputs, threads, pc, analysis, calls, invoked, tickets,
                   ragResult, chartResult, references, result>>

NextAnalytics == ExecuteChart \/ GenerateAnalyticsAgain \/ CombineResults

SpecAnalytics == InitAnalytics /\ [][NextAnalytics]_vars

\* the server's requests one after the other, retrieval by the RAGAgent of
\* ragAgent.js
InitThreads ==
    /\ userQuery \in {"How do I fix my battery issue", "show ticket statistics"}
    /\ tenant \in Tenants
    /\ threadId \in ThreadIds
    /\ classifierReply \in {Failure("429 Too Many Requests"),
                            Content(<<Prose, LBrace, Pair("needsRAG", "true"), Comma,
                                      Pair("needsChart", "true"), RBrace>>)}
    /\ storeReply = [tier1 |-> Data(<<>>), tier2 |-> Data(<<>>), tier3 |-> Data(<<>>)]
    /\ generatorReply = Text(" \n")
    /\ analyticsReply \in {Data(<<>>), Throw("fetch failed", "")}
    /\ Start

NextThreads ==
    \/ AnalyzeQueryRequirements
    \/ ExecuteRAGAgent
    \/ SkipRAG
    \/ ExecuteChart
    \/ SkipChart
    \/ CombineResults
    \/ NextRequest

SpecThreads == InitThreads /\ [][NextThreads]_vars

\* one call of DelegatingAgent.handleQuery next to a caller of the RAGAgent
\* of ragAgent.js
NextAgent ==
    \/ AnalyzeQueryRequirements
    \/ ExecuteRAGAgent
    \/ SkipRAG
    \/ ExecuteChart
    \/ SkipChart
    \/ CombineResults
    \/ AgentHandleQuery

SpecAgent == InitThreads /\ [][NextAgent]_vars

SearchStart ==
    /\ userQuery \in {"How do I fix my battery issue", "hi"}
    /\ tenant \in Tenants
    /\ threadId = "default"
    /\ classifierReply = Content(<<Prose>>)
    /\ storeReply \in StoreReplies(tenant)
    /\ generatorReply = TextFailure("")
    /\ analyticsReply = Data(<<>>)
    /\ pc = "tier1"
    /\ analysis = DefaultAnalysis
    /\ calls = <<>>
    /\ invoked = <<"classifier", "retrieval">>
    /\ tickets = <<>>
    /\ ragResult = Null
    /\ chartResult = Null
    /\ summaries = <<>>
    /\ charts = <<>>
    /\ memory = [t \in ThreadIds |-> <<>>]
    /\ loaded = <<>>
    /\ agentResults = <<>>
    /\ requests = 1
    /\ references = [threadId |-> threadId]
    /\ result = Null
    /\ ImporterIdle

InitSearch ==
    /\ requestedLimit = DefaultLimit
    /\ SearchStart

NextSearch ==
    \/ SearchTickets
    \/ FallbackSearch
    \/ FetchObjectsFallback

SpecSearch == InitSearch /\ [][NextSearch]_vars

\* the keyword tiers on queries of every make: Tier 1 lacks its embedding
\* service, Tier 2 finds nothing or fails
InitKeywords ==
    /\ userQuery \in TokenQueries(MaxTokens) \cup {"", " ", "my"}
    /\ tenant = ""
    /\ threadId = "default"
    /\ requestedLimit = DefaultLimit
    /\ classifierReply = Content(<<Prose>>)
    /\ storeReply \in [tier1 : {Throw("dial tcp: lookup t2v-transformers: no such host", "")},
                        tier2 : {Data(<<>>), Throw("fetch failed", "")},
                        tier3 : {Data(TicketRange(1, 1, tenant))}]
    /\ generatorReply = TextFailure("")
    /\ analyticsReply = Data(<<>>)
    /\ pc = "tier1"
    /\ analysis = DefaultAnalysis
    /\ calls = <<>>
    /\ invoked = <<"classifier", "retrieval">>
    /\ tickets = <<>>
    /\ ragResult = Null
    /\ chartResult = Null
    /\ summaries = <<>>
    /\ charts = <<>>
    /\ memory = [t \in ThreadIds |-> <<>>]
    /\ loaded = <<>>
    /\ agentResults = <<>>
    /\ requests = 1
    /\ references = [threadId |-> threadId]
    /\ result = Null
    /\ ImporterIdle

SpecKeywords == InitKeywords /\ [][NextSearch]_vars

\* a search called with a limit of its caller's, the store holding more
\* matching tickets than that or fewer
Limits == {1, 2, DefaultLimit}

InitLimit ==
    /\ requestedLimit \in Limits
    /\ SearchStart

SpecLimit == InitLimit /\ [][NextSearch]_vars

(***************************************************************************)
(* Properties of the whole call.                                           *)
(***************************************************************************)
\* the shape of a ComposedAnswer: answer, references with the threadId, chart
IsComposedAnswer(r) ==
    /\ DOMAIN r = {"answer", "references", "chart"}
    /\ "threadId" \in DOMAIN r.references
    /\ r.references.threadId = threadId

\* C1: whatever the classifier, the store, the generator and the analytics
\* scan do, a handleQuery call never ends on a raised error: it is at one of
\* its steps, with every failure turned into a value, and what it returns is
\* a ComposedAnswer.
C1_RouteAlwaysReturnsComposedAnswer ==
    /\ pc \in {"analyze", "rag", "tier1", "tier2", "tier3", "generate", "chart",
               "combine", "done"}
    /\ pc = "done" => IsComposedAnswer(result)

\* the call returned although the classifier, all three tiers and the
\* analytics scan failed
C1_Witness ==
    /\ pc = "done"
    /\ classifierReply.kind = "throw"
    /\ Len(calls) = 3
    /\ storeReply.tier3.kind = "throw"
    /\ analyticsReply.kind = "throw"
    /\ chartResult # Null
    /\ IsComposedAnswer(result)

Analysed == pc # "analyze"

\* the routing decision of an analysis, as handleQuery reads it
Decision(a) == <<Get(a, "needsRAG"), Get(a, "needsChart")>>

MatchesIssueVocabulary == hasIssueKeywords(ToLowerCase(userQuery))
MatchesAnalyticsVocabulary == hasAnalyticsKeywords(ToLowerCase(userQuery))

\* C3: when the keyword classifier decides (the classifier call failed) and
\* the query matches neither vocabulary, needsRAG is true.
C3_NeitherVocabularyDefaultsToRetrieval ==
    (/\ Analysed
     /\ classifierReply.kind = "throw"
     /\ ~MatchesIssueVocabulary
     /\ ~MatchesAnalyticsVocabulary)
    => Get(analysis, "needsRAG") = "true"

\* no "{" with a "}" after it, or the span between them is no JSON
ParseFails(content) ==
    \/ ~\E i, j \in 1..Len(content) :
            i < j /\ content[i] = LBrace /\ content[j] = RBrace
    \/ ~JsonValid(JsonMatch(content).span)

IsBoolean(v) == v \in {"true", "false"}

\* C5: a parsed object that lacks a boolean needsRAG or a boolean needsChart
\* is rejected: the decision is the keyword classifier's.
C5_ShapelessDecisionRejected ==
    (/\ Analysed
     /\ classifierReply.kind = "content"
     /\ ~ParseFails(classifierReply.content)
     /\ LET parsed == JsonParse(JsonMatch(classifierReply.content).span)
        IN  ~(IsBoolean(Get(parsed, "needsRAG")) /\ IsBoolean(Get(parsed, "needsChart"))))
    => Decision(analysis) = Decision(KeywordAnalysis(userQuery, FALSE))

\* the span from the first "{" to the "}" that balances it
FirstBalancedSpan(content) ==
    LET Depth(i, k) == Cardinality({m \in i..k : content[m] = LBrace})
                       - Cardinality({m \in i..k : content[m] = RBrace})
        opens == {i \in 1..Len(content) : content[i] = LBrace}
        i == CHOOSE x \in opens : \A y \in opens : x <= y
        ends == {k \in i..Len(content) : Depth(i, k) = 0}
    IN  IF opens = {} \/ ends = {} THEN <<>>
        ELSE SubSeq(content, i, CHOOSE x \in ends : \A y \in ends : x <= y)

\* a well-formed decision object, and braces in the text after it
DecisionObjectThenBraces(content) ==
    LET span == FirstBalancedSpan(content)
    IN  /\ span # <<>>
        /\ JsonValid(span)
        /\ IsBoolean(Get(JsonParse(span), "needsRAG"))
        /\ IsBoolean(Get(JsonParse(span), "needsChart"))
        /\ \E i \in 1..Len(content) :
              /\ content[i] = LBrace
              /\ \A j \in 1..(i - 1) : content[j] # LBrace
              /\ \E m \in (i + Len(span))..Len(content) : content[m] \in {LBrace, RBrace}

\* C6: of a reply that holds a well-formed decision object followed by text
\* with braces, the first balanced span is the decision.
C6_FirstBalancedSpanIsTheDecision ==
    (/\ Analysed
     /\ classifierReply.kind = "content"
     /\ DecisionObjectThenBraces(classifierReply.content))
    => analysis = JsonParse(FirstBalancedSpan(classifierReply.content))

\* C7: when the keyword classifier decides and a vocabulary matches, needsRAG
\* is true exactly if the issue vocabulary matches and needsChart exactly if
\* the analytics vocabulary matches.
C7_KeywordFlagsFollowVocabularies ==
    (/\ Analysed
     /\ classifierReply.kind = "throw"
     /\ MatchesIssueVocabulary \/ MatchesAnalyticsVocabulary)
    => /\ Get(analysis, "needsRAG") = "true" <=> MatchesIssueVocabulary
       /\ Get(analysis, "needsRAG") = "false" <=> ~MatchesIssueVocabulary
       /\ Get(analysis, "needsChart") = "true" <=> MatchesAnalyticsVocabulary
       /\ Get(analysis, "needsChart") = "false" <=> ~MatchesAnalyticsVocabulary

\* the classifier failed on a query of the analytics vocabulary alone
C7_Witness ==
    /\ Analysed
    /\ classifierReply.kind = "throw"
    /\ ~MatchesIssueVocabulary
    /\ MatchesAnalyticsVocabulary
    /\ Decision(analysis) = <<"false", "true">>

(***************************************************************************)
(* Properties of the search cascade.                                       *)
(***************************************************************************)
\* Tier 1 has been called; the search has returned
Searched == Len(calls) >= 1
SearchReturned == Searched /\ pc \notin {"tier1", "tier2", "tier3"}

Marked(message, markers) == \E k \in markers : Includes(message, k)

Tier1Failed == storeReply.tier1.kind # "data"

\* a failure of the Tier 1 call counts as a transport failure when the call
\* is rejected with a connection marker in its message or the code
\* ECONNREFUSED, or when an embedded error that tells nothing of the
\* embedding service carries a connection marker
Tier1TransportFailure ==
    \/ /\ storeReply.tier1.kind = "throw"
       /\ \/ Marked(storeReply.tier1.message, ConnectionMarkers)
          \/ storeReply.tier1.code = "ECONNREFUSED"
    \/ /\ storeReply.tier1.kind = "errors"
       /\ ~Marked(storeReply.tier1.message, TransformerMarkers)
       /\ Marked(storeReply.tier1.message, ConnectionMarkers)

\* the embedding service is unavailable: a transformer marker in an embedded
\* error, or in a rejection that is no transport failure
Tier1EmbeddingFailure ==
    /\ Tier1Failed
    /\ Marked(storeReply.tier1.message, TransformerMarkers)
    /\ ~Tier1TransportFailure

Tier2HasTickets ==
    storeReply.tier2.kind = "data" /\ Len(storeReply.tier2.tickets) >= 1

\* C8: after a transport failure of the Tier 1 call the search returns no
\* tickets, and neither Tier 2 nor Tier 3 is called.
C8_TransportFailureEndsSearch ==
    (Searched /\ Tier1TransportFailure)
    => /\ tickets = <<>>
       /\ Len(calls) = 1
       /\ calls[1].tier = "semantic"
       /\ pc \notin {"tier2", "tier3"}

\* the store refused the connection although Tier 2 would have had tickets
C8_Witness ==
    /\ SearchReturned
    /\ storeReply.tier1.kind = "throw"
    /\ storeReply.tier1.code = "ECONNREFUSED"
    /\ Tier2HasTickets
    /\ tickets = <<>>
    /\ Len(calls) = 1

\* the value searchTickets resolves to: the array of tickets, and no other
\* property
RetrievalResult == [tickets |-> tickets]

C11_Tier1SuccessEndsSearch ==
    (Searched /\ storeReply.tier1.kind = "data")
    => /\ tickets = storeReply.tier1.tickets
       /\ Len(calls) = 1
       /\ pc \notin {"tier2", "tier3"}

\* Tier 1 found nothing although Tiers 2 and 3 would have had tickets
C11_Witness ==
    /\ SearchReturned
    /\ storeReply.tier1 = Data(<<>>)
    /\ Tier2HasTickets
    /\ storeReply.tier3.kind = "data"
    /\ Len(storeReply.tier3.tickets) >= 1
    /\ tickets = <<>>
    /\ Len(calls) = 1

\* Tier 2 and Tier 3 have been called
Tier2Called == Len(calls) >= 2 /\ calls[2].tier = "keyword-structured"
Tier3Called == Len(calls) >= 3 /\ calls[3].tier = "keyword-raw"

Tier2TransportFailure ==
    /\ storeReply.tier2.kind = "throw"
    /\ \/ Marked(storeReply.tier2.message, ConnectionMarkers)
       \/ storeReply.tier2.code = "ECONNREFUSED"

C13_Tier2TransportFailureEndsSearch ==
    (Tier2Called /\ Tier2TransportFailure)
    => /\ tickets = <<>>
       /\ Len(calls) = 2
       /\ pc \notin {"tier2", "tier3"}

\* the connection broke at Tier 2 although Tier 3 would have had tickets
C13_Witness ==
    /\ SearchReturned
    /\ Tier2Called
    /\ Tier2TransportFailure
    /\ storeReply.tier3.kind = "data"
    /\ Len(storeReply.tier3.tickets) >= 1
    /\ tickets = <<>>
    /\ Len(calls) = 2

\* a tier's reply is a failure or holds no ticket
FailsOrEmpty(reply) == reply.kind # "data" \/ reply.tickets = <<>>

\* C14: when every tier fails or finds nothing, the search returns no
\* tickets; after the Tier 3 call the search has returned, without tickets
\* if that call failed.
C14_ExhaustedCascadeReturnsEmpty ==
    /\ (/\ SearchReturned
        /\ FailsOrEmpty(storeReply.tier1)
        /\ FailsOrEmpty(storeReply.tier2)
        /\ FailsOrEmpty(storeReply.tier3))
       => tickets = <<>>
    /\ Len(calls) >= 3
       => /\ Len(calls) = 3
          /\ pc \notin {"tier1", "tier2", "tier3"}
          /\ storeReply.tier3.kind # "data" => tickets = <<>>

\* all three tiers were called and each of them failed
C14_Witness ==
    /\ SearchReturned
    /\ Tier3Called
    /\ storeReply.tier1.kind = "throw"
    /\ storeReply.tier2.kind = "throw"
    /\ storeReply.tier3.kind = "throw"
    /\ tickets = <<>>

(***************************************************************************)
(* Properties of dispatch and merge.                                       *)
(***************************************************************************)
\* the collaborator has been called in this handleQuery call
Invoked(name) == \E i \in DOMAIN invoked : invoked[i] = name

\* both tool branches are over
Dispatched == pc \in {"combine", "done"}

StartsWith(s, prefix) ==
    Len(s) >= Len(prefix) /\ SubSeq(s, 1, Len(prefix)) = prefix

\* C15: with needsChart true the analytics tool is called, whatever became
\* of retrieval and synthesis; and when the analytics tool failed, the
\* returned answer still starts with the retrieval text and the references
\* still hold the ticket ids of retrieval.
C15_BranchesFailApart ==
    /\ (Dispatched /\ Get(analysis, "needsChart") = "true") => Invoked("analytics")
    /\ (/\ pc = "done"
        /\ ragResult # Null
        /\ Invoked("analytics")
        /\ analyticsReply.kind # "data")
       => /\ StartsWith(result.answer, ragResult.answer)
          /\ result.references.ticketIds = ragResult.references.ticketIds

\* the generator failed, the analytics scan failed, and the answer holds the
\* template text of retrieval with its two ticket ids
C15_Witness ==
    /\ pc = "done"
    /\ Invoked("generator")
    /\ generatorReply.kind = "throw"
    /\ Invoked("analytics")
    /\ analyticsReply.kind = "throw"
    /\ Len(ragResult.answer) > 0
    /\ StartsWith(result.answer, ragResult.answer)
    /\ Len(result.references.ticketIds) = 2

\* C16: for a decision of two booleans, retrieval and then synthesis run
\* exactly if needsRAG is true, and the analytics tool runs exactly if
\* needsChart is true.
C16_DispatchFollowsDecision ==
    (/\ Dispatched
     /\ IsBoolean(Get(analysis, "needsRAG"))
     /\ IsBoolean(Get(analysis, "needsChart")))
    => /\ Invoked("retrieval") <=> Get(analysis, "needsRAG") = "true"
       /\ ragResult # Null <=> Get(analysis, "needsRAG") = "true"
       /\ Len(calls) >= 1 <=> Get(analysis, "needsRAG") = "true"
       /\ Invoked("analytics") <=> Get(analysis, "needsChart") = "true"
       /\ chartResult # Null <=> Get(analysis, "needsChart") = "true"

\* an analytics-only decision: the analytics tool ran, retrieval did not
C16_Witness ==
    /\ Dispatched
    /\ Decision(analysis) = <<"false", "true">>
    /\ Invoked("analytics")
    /\ ~Invoked("retrieval")
    /\ calls = <<>>

\* C17: the chart of the returned answer is what generateAnalytics produced
\* if the analytics tool ran, and null if it did not.
C17_ChartIsTheAnalyticsResult ==
    pc = "done"
    => IF Invoked("analytics")
       THEN result.chart = generateAnalytics(analyticsReply) /\ result.chart # Null
       ELSE result.chart = Null

\* the analytics tool ran on tickets and the answer carries its four charts
C17_Witness ==
    /\ pc = "done"
    /\ Invoked("analytics")
    /\ analyticsReply.kind = "data"
    /\ Len(analyticsReply.tickets) >= 1
    /\ DOMAIN result.chart = {"statusDistribution", "priorityDistribution",
                              "responseTimeChart", "satisfactionChart"}

\* C18: for the decision needsRAG = false, needsChart = true the answer
\* begins with the header of the analytics section and the references hold
\* no ticket ids.
C18_AnalyticsOnlyAnswer ==
    (pc = "done" /\ Decision(analysis) = <<"false", "true">>)
    => /\ StartsWith(result.answer, AnalyticsHeader)
       /\ "ticketIds" \notin DOMAIN result.references

\* an analytics-only answer
C18_Witness ==
    /\ pc = "done"
    /\ Decision(analysis) = <<"false", "true">>
    /\ userQuery = "Show me ticket statistics"
    /\ tenant = ""
    /\ result.chart # Null
    /\ StartsWith(result.answer, AnalyticsHeader)

\* retrieval alone was asked for, and Tier 2 returned two tickets
RetrievalOnlyTwoFromTier2 ==
    /\ pc = "done"
    /\ Decision(analysis) = <<"true", "false">>
    /\ Len(calls) = 2
    /\ Tier2Called
    /\ Len(tickets) = 2

\* C19 as stated: then the answer holds the id of both tickets, be it the
\* generator's text or the template's.
C19_AnswerNamesBothTickets ==
    RetrievalOnlyTwoFromTier2
    => \A i \in 1..2 : Includes(result.answer, tickets[i].ticketId)

\* C19 amended: then the references hold the id of both tickets; the
\* template's text holds both ids too, while the generator's text is
\* returned trimmed, whatever it names.
C19_ReferencesNameBothTickets ==
    RetrievalOnlyTwoFromTier2
    => /\ result.references.ticketIds = <<tickets[1].ticketId, tickets[2].ticketId>>
       /\ generatorReply.kind # "content"
          => \A i \in 1..2 : Includes(result.answer, tickets[i].ticketId)
       /\ (generatorReply.kind = "content" /\ Trim(generatorReply.content) # "")
          => result.answer = Trim(generatorReply.content)

\* the generator failed and the template names both tickets of Tier 2
C19_Witness ==
    /\ RetrievalOnlyTwoFromTier2
    /\ generatorReply.kind = "throw"
    /\ Includes(result.answer, "TKT-1002")
    /\ Includes(result.answer, "TKT-1003")

(***************************************************************************)
(* Properties of answer synthesis.                                         *)
(***************************************************************************)
Synthesized == ragResult # Null

\* C20: on an empty ticket set generateResponse returns the fixed message
\* and an empty list of ticket ids, and the generator is not called.
C20_EmptySetGetsNoResultsMessage ==
    (Synthesized /\ tickets = <<>>)
    => /\ ragResult.answer = NoResultsAnswer
       /\ ragResult.references = [ticketIds |-> <<>>]
       /\ ~Invoked("generator")

\* no tickets, and a generator that would have answered
C20_Witness ==
    /\ Synthesized
    /\ tickets = <<>>
    /\ generatorReply.kind = "content"
    /\ ragResult.answer = NoResultsAnswer

\* the number of places where k occurs in s, and the first of them
Occurrences(s, k) ==
    Cardinality({i \in 1..(Len(s) - Len(k) + 1) : SubSeq(s, i, i + Len(k) - 1) = k})

FirstOccurrence(s, k) ==
    CHOOSE i \in 1..(Len(s) - Len(k) + 1) :
        /\ SubSeq(s, i, i + Len(k) - 1) = k
        /\ \A j \in 1..(i - 1) : SubSeq(s, j, j + Len(k) - 1) # k

BlockHead(ticket) == "**Ticket #" \o ticket.ticketId \o "**"

RemainderLine(k) == "... and " \o ToString(k) \o " more similar ticket(s).\n"

GenerationFailed == Invoked("generator") /\ generatorReply.kind # "content"

\* C21: when generation fails on n tickets, n >= 1, the template text holds
\* min(n, 3) ticket blocks, those of the first tickets in their order, and a
\* line telling of n - 3 more tickets exactly if n > 3.
C21_TemplateShowsFirstThree ==
    (Synthesized /\ GenerationFailed)
    => LET n == Len(tickets)
           shown == IF n < 3 THEN n ELSE 3
           text == ragResult.answer
       IN  /\ n >= 1
           /\ Occurrences(text, "**Ticket #") = shown
           /\ \A i \in 1..shown : Occurrences(text, BlockHead(tickets[i])) = 1
           /\ \A i \in 1..(shown - 1) :
                 FirstOccurrence(text, BlockHead(tickets[i]))
                     < FirstOccurrence(text, BlockHead(tickets[i + 1]))
           /\ \A i \in (shown + 1)..n : ~Includes(text, tickets[i].ticketId)
           /\ Occurrences(text, " more similar ticket(s).") = (IF n > 3 THEN 1 ELSE 0)
           /\ n > 3 => Includes(text, RemainderLine(n - 3))

\* generation failed on five tickets: three blocks and a line for 2 more
C21_Witness ==
    /\ Synthesized
    /\ GenerationFailed
    /\ Len(tickets) = 5
    /\ Occurrences(ragResult.answer, "**Ticket #") = 3
    /\ Includes(ragResult.answer, "... and 2 more similar ticket(s).\n")

\* C22: for a ticket sequence that is not empty, the references generateResponse
\* returns list the id of every ticket in order, on the generator's path and
\* on the template's, and handleQuery returns that list unchanged.
C22_ReferencesListEveryTicket ==
    (Synthesized /\ Len(tickets) >= 1)
    => /\ ragResult.references.ticketIds = [i \in 1..Len(tickets) |-> tickets[i].ticketId]
       /\ pc = "done" => result.references.ticketIds = ragResult.references.ticketIds

\* five tickets on the template's path: all five ids are returned
C22_Witness ==
    /\ pc = "done"
    /\ GenerationFailed
    /\ Len(tickets) = 5
    /\ Len(result.references.ticketIds) = 5
    /\ result.references.ticketIds[5] = tickets[5].ticketId
    /\ ~Includes(result.answer, tickets[5].ticketId)

(***************************************************************************)
(* Analytics.  A scan is a call of generateAnalytics whose store query     *)
(* returned; its summary is the AnalyticsSummary of the scanned tickets.   *)
(***************************************************************************)
Scanned == analyticsReply.kind = "data"

ScannedTickets == analyticsReply.tickets

\* the count a distribution holds under a label, 0 when it has no such label
Bucket(dist, label) ==
    Sum([i \in 1..Len(dist.labels) |->
            IF dist.labels[i] = label THEN dist.data[i] ELSE 0])

\* how many of the scanned tickets have one of the values in a field
Having(field, values) ==
    Cardinality({i \in 1..Len(ScannedTickets) : ScannedTickets[i][field] \in values})

NoCounts == [labels |-> <<>>, data |-> <<>>]

\* C24: the scan of an empty ticket set gives a summary and the four
\* charts, not the error chart: both count maps are empty, the two time
\* statistics hold average, min, max and count, the satisfaction statistics
\* hold average, distribution and count, and every one of these is 0.
C24_EmptySetIsWellFormed ==
    (Scanned /\ ScannedTickets = <<>>) =>
        \A k \in 1..Len(summaries) :
            /\ summaries[k] # Null
            /\ summaries[k].statusDistribution = NoCounts
            /\ summaries[k].priorityDistribution = NoCounts
            /\ \A stats \in {summaries[k].responseTimeStats,
                              summaries[k].resolutionTimeStats} :
                   /\ DOMAIN stats = {"average", "min", "max", "count"}
                   /\ \A f \in DOMAIN stats : stats[f] = 0
            /\ DOMAIN summaries[k].satisfactionStats
                   = {"average", "labels", "data", "count"}
            /\ summaries[k].satisfactionStats.average = 0
            /\ summaries[k].satisfactionStats.count = 0
            /\ summaries[k].satisfactionStats.labels = <<>>
            /\ summaries[k].satisfactionStats.data = <<>>
            /\ charts[k] # getErrorChart("Failed to generate analytics")
            /\ "statusDistribution" \in DOMAIN charts[k]

\* the store answered the scan with no ticket
C24_Witness ==
    /\ Scanned
    /\ ScannedTickets = <<>>
    /\ Len(summaries) >= 1
    /\ pc = "done"

\* a field of a statistics record is left out or holds no number
Absent(stats, f) == f \notin DOMAIN stats \/ stats[f] \notin Int

\* C25: when no scanned ticket contributes a response time, the average,
\* min and max of the response-time statistics are absent or null, not
\* numbers; likewise for the resolution times, and for the average of the
\* satisfaction statistics when no ticket contributes a rating.
C25_EmptySampleHasNoNumber ==
    Scanned =>
        \A k \in 1..Len(summaries) :
            /\ Collect(ScannedTickets, "response") = <<>> =>
                   \A f \in {"average", "min", "max"} :
                       Absent(summaries[k].responseTimeStats, f)
            /\ Collect(ScannedTickets, "resolution") = <<>> =>
                   \A f \in {"average", "min", "max"} :
                       Absent(summaries[k].resolutionTimeStats, f)
            /\ Collect(ScannedTickets, "satisfaction") = <<>> =>
                   Absent(summaries[k].satisfactionStats, "average")

ChartNames ==
    {"statusDistribution", "priorityDistribution", "responseTimeChart",
     "satisfactionChart"}

\* C27: whatever the store does with the scan, for no tenant and for any
\* tenant, the value generateAnalytics returns holds the four charts by
\* name, each with a type and its data.
C27_FourChartsOnEveryPath ==
    \A k \in 1..Len(charts) :
        /\ ChartNames \subseteq DOMAIN charts[k]
        /\ \A name \in ChartNames :
               {"type", "data"} \subseteq DOMAIN charts[k][name]

(***************************************************************************)
(* Threads.                                                                *)
(***************************************************************************)
HoldsThread(refs, thread) ==
    /\ "threadId" \in DOMAIN refs
    /\ refs.threadId = thread

\* C28: the references of DelegatingAgent.handleQuery, from the moment they
\* are made to the returned result, hold the threadId of the call; the
\* references RAGAgent.handleQuery returns hold the threadId its caller
\* passed, 'default' when none was passed, whether the agent answered or
\* threw; so two calls with the same threadId return the same one.
C28_ReferencesHoldThreadId ==
    /\ references # Null => HoldsThread(references, threadId)
    /\ pc = "done" => HoldsThread(result.references, threadId)
    /\ \A k \in 1..Len(agentResults) :
           HoldsThread(agentResults[k].result.references,
                       ThreadParameter(agentResults[k].passed))
    /\ \A i, j \in 1..Len(agentResults) :
           agentResults[i].passed = agentResults[j].passed =>
               /\ "threadId" \in DOMAIN agentResults[j].result.references
               /\ HoldsThread(agentResults[i].result.references,
                              agentResults[j].result.references.threadId)

\* two calls of the agent without a threadId, one answered and one failed,
\* and a returned call of the delegating agent under a threadId of its own
C28_Witness ==
    /\ Len(agentResults) = 2
    /\ agentResults[1].passed = "undefined"
    /\ agentResults[2].passed = "undefined"
    /\ "error" \notin DOMAIN agentResults[1].result.references
    /\ "error" \in DOMAIN agentResults[2].result.references
    /\ agentResults[2].result.references.threadId = "default"
    /\ pc = "done"
    /\ threadId = "thread-7"
    /\ result.references.threadId = "thread-7"

\* C29: what the agent loads from this.memory for a request was written by
\* requests that supplied the same thread identifier: no request reads what
\* a request under another threadId wrote.
C29_NoReadAcrossThreads ==
    \A i \in 1..Len(loaded) : loaded[i].by = threadId

(***************************************************************************)
(* Tenant isolation.                                                       *)
(***************************************************************************)
\* C30: with a tenant, every query a tier sends to the store carries the
\* filter productPurchased = tenant next to the rest of its predicate: the
\* nearText concepts of Tier 1, the keyword conditions of Tier 2 and of
\* Tier 3; and the tickets the search returns are the tenant's.
C30_EveryTierFiltersByTenant ==
    tenant # "" =>
        /\ \A k \in 1..Len(calls) :
               /\ calls[k].productEqual = tenant
               /\ calls[k].tier = "semantic" => calls[k].concepts = <<userQuery>>
               /\ calls[k].tier # "semantic" =>
                      calls[k].anyOf = createKeywordConditions(extractKeywords(userQuery))
        /\ \A i \in 1..Len(tickets) : tickets[i].productPurchased = tenant

\* a search for a tenant that went through all three tiers and found a
\* ticket in the last
C30_Witness ==
    /\ tenant # ""
    /\ Len(calls) = 3
    /\ calls[3].tier = "keyword-raw"
    /\ calls[3].anyOf # <<>>
    /\ Len(tickets) >= 1

(***************************************************************************)
(* The limit of a search.                                                  *)
(***************************************************************************)
\* C31: every query of a search asks the store for at most the caller's
\* limit, so the tickets the search returns, of whichever tier, are at most
\* that many.
C31_AtMostLimitTickets ==
    /\ \A k \in 1..Len(calls) : calls[k].limit = requestedLimit
    /\ SearchReturned => Len(tickets) <= requestedLimit

\* Tier 3 answered a search whose store held more matching tickets than the
\* limit
C31_Witness ==
    /\ SearchReturned
    /\ Len(calls) = 3
    /\ storeReply.tier3.kind = "data"
    /\ Len(storeReply.tier3.tickets) > requestedLimit
    /\ Len(tickets) = requestedLimit

(***************************************************************************)
(* The order of the tiers.                                                 *)
(***************************************************************************)
TierOrder == <<"semantic", "keyword-structured", "keyword-raw">>

\* C32: the store calls of a search are a prefix of Tier 1, Tier 2, Tier 3:
\* at most three, each tier at most once and in this order; Tier 2 is called
\* only after the Tier 1 call has come back and sent the search on, Tier 3
\* only after the Tier 2 call has; and while a tier is yet to be called the
\* search has not returned.
C32_EachTierOnceInOrder ==
    /\ Len(calls) <= Len(TierOrder)
    /\ \A k \in 1..Len(calls) : calls[k].tier = TierOrder[k]
    /\ pc = "tier1" => Len(calls) = 0
    /\ pc = "tier2" => Len(calls) = 1 /\ Tier1Failed
    /\ pc = "tier3" =>
           /\ Len(calls) = 2
           /\ storeReply.tier2.kind = "data" => storeReply.tier2.tickets = <<>>
    /\ Len(calls) >= 2 => Tier1Failed

\* a search that called all three tiers and returned
C32_Witness ==
    /\ SearchReturned
    /\ Len(calls) = 3
    /\ storeReply.tier2.kind = "throw"
    /\ storeReply.tier3.kind = "throw"

(***************************************************************************)
(* The order of the merged text.                                           *)
(***************************************************************************)
StatusTitle == "**Ticket Status Distribution:**\n"
PriorityTitle == "**Ticket Priority Distribution:**\n"
ResponseTitle == "**Response Time Statistics:**\n"

SectionMarks ==
    <<AnalyticsHeader, StatusTitle, PriorityTitle, ResponseTitle,
      "- **Average:** ", "- **Minimum:** ", "- **Maximum:** ">>

RetrievalText == IF ragResult # Null THEN ragResult.answer ELSE ""

\* the part of s from the first k to just before the first l
Between(s, k, l) == SubSeq(s, FirstOccurrence(s, k), FirstOccurrence(s, l) - 1)

\* C33: in the answer of a call whose analytics tool ran, the retrieval text
\* comes first when there is one, the header of the analytics section right
\* after it, and nothing of the analytics section before it; when the tool
\* gave its charts, the header, the status lines, the priority lines and the
\* average, minimum and maximum of the response time follow one another in
\* this order, each once.
C33_MergedTextInFixedOrder ==
    (pc = "done" /\ chartResult # Null) =>
        /\ Occurrences(result.answer, AnalyticsHeader) = 1
        /\ RetrievalText # "" =>
               /\ StartsWith(result.answer, RetrievalText \o "\n\n" \o AnalyticsHeader)
               /\ \A m \in 1..Len(SectionMarks) :
                      ~Includes(RetrievalText, SectionMarks[m])
        /\ RetrievalText = "" => StartsWith(result.answer, AnalyticsHeader)
        /\ "statusDistribution" \in DOMAIN chartResult =>
               /\ \A m \in 1..Len(SectionMarks) :
                      Occurrences(result.answer, SectionMarks[m]) = 1
               /\ \A m \in 1..(Len(SectionMarks) - 1) :
                      FirstOccurrence(result.answer, SectionMarks[m])
                          < FirstOccurrence(result.answer, SectionMarks[m + 1])
               /\ Between(result.answer, StatusTitle, PriorityTitle)
                      = StatusTitle
                        \o DistributionLines(chartResult.statusDistribution.labels,
                                             chartResult.statusDistribution.data)
                        \o "\n"
               /\ Between(result.answer, PriorityTitle, ResponseTitle)
                      = PriorityTitle
                        \o DistributionLines(chartResult.priorityDistribution.labels,
                                             chartResult.priorityDistribution.data)
                        \o "\n"

\* retrieval and analytics both gave their part of an answer
C33_Witness ==
    /\ pc = "done"
    /\ RetrievalText # ""
    /\ chartResult # Null
    /\ "statusDistribution" \in DOMAIN chartResult
    /\ Len(chartResult.statusDistribution.labels) >= 2
    /\ Len(tickets) >= 1
    /\ Includes(result.answer, "- **Maximum:** ")

\* C34: when the call ends with no text from retrieval (it did not run, or
\* its answer is empty) and none from analytics (it did not run), the answer
\* is the fixed message that the query could not be processed; and with a
\* text from either, it is not.
C34_CouldNotProcessWhenNoText ==
    pc = "done" =>
        (RetrievalText = "" /\ chartResult = Null) <=> (result.answer = CouldNotProcess)

\* retrieval ran and its answer was empty, analytics did not run
C34_Witness ==
    /\ pc = "done"
    /\ ragResult # Null
    /\ ragResult.answer = ""
    /\ ~Invoked("analytics")
    /\ result.answer = CouldNotProcess

(***************************************************************************)
(* The keywords of Tiers 2 and 3.                                          *)
(***************************************************************************)
\* the keywords a query of Tier 2 or of Tier 3 was built from
KeywordsOf(call) ==
    [i \in 1..Len(call.anyOf) |->
        SubSeq(call.anyOf[i].like, 2, Len(call.anyOf[i].like) - 1)]

\* the query read character by character: a word ends at white space and is
\* kept, in lower case, when it is longer than 2 and 3 are not yet kept
Kept(acc, word) == IF Len(word) > 2 /\ Len(acc) < 3 THEN Append(acc, word) ELSE acc

RECURSIVE Scan(_, _, _, _)
Scan(s, i, word, acc) ==
    IF i > Len(s) THEN Kept(acc, word)
    ELSE IF SubSeq(s, i, i) \in Whitespace
         THEN Scan(s, i + 1, "", Kept(acc, word))
         ELSE Scan(s, i + 1, word \o LowerChar(SubSeq(s, i, i)), acc)

LineAt(s, i) ==
    LET ends == {j \in i..Len(s) : SubSeq(s, j, j) = "\n"}
    IN  IF ends = {} THEN SubSeq(s, i, Len(s))
        ELSE SubSeq(s, i, (CHOOSE j \in ends : \A e \in ends : j <= e) - 1)

\* what follows a mark on its line, for every place the mark has in s, in
\* their order
RECURSIVE LinesAfter(_, _, _)
LinesAfter(s, mark, from) ==
    LET places == {i \in from..(Len(s) - Len(mark) + 1) :
                      SubSeq(s, i, i + Len(mark) - 1) = mark}
    IN  IF places = {} THEN <<>>
        ELSE LET p == CHOOSE i \in places : \A e \in places : i <= e
             IN  <<LineAt(s, p + Len(mark))>> \o LinesAfter(s, mark, p + Len(mark))

\* a text as the template shows it: in full, or its first n characters and
\* an ellipsis
Cut(text, n) == IF Len(text) > n THEN SubSeq(text, 1, n) \o "..." ELSE text

\* the texts of a field of the shown tickets that are not empty, cut
RECURSIVE Shown(_, _, _)
Shown(tks, field, n) ==
    IF tks = <<>> THEN <<>>
    ELSE (IF Head(tks)[field] # "" THEN <<Cut(Head(tks)[field], n)>> ELSE <<>>)
         \o Shown(Tail(tks), field, n)

TemplateAnswered == ragResult # Null /\ GenerationFailed /\ Len(tickets) >= 1

\* C36 as stated: what a block of the template answer gives as the
\* description of a ticket is at most 150 characters long, and what it gives
\* as the resolution at most 200.
C36_EmittedTextsWithinCut ==
    TemplateAnswered =>
        /\ \A i \in 1..Len(LinesAfter(ragResult.answer, "**Issue:** ", 1)) :
               Len(LinesAfter(ragResult.answer, "**Issue:** ", 1)[i]) <= MaxDescription
        /\ \A i \in 1..Len(LinesAfter(ragResult.answer, "**Resolution:** ", 1)) :
               Len(LinesAfter(ragResult.answer, "**Resolution:** ", 1)[i]) <= MaxResolution

\* C36: a block of the template answer gives the description of a ticket in
\* full when it has at most 150 characters, else its first 150 characters
\* followed by an ellipsis of three dots; likewise the resolution with 200.
\* What is given is at most 153, respectively 203, characters long.
C36_TextsCutWithEllipsis ==
    TemplateAnswered =>
        /\ LinesAfter(ragResult.answer, "**Issue:** ", 1)
               = Shown(SubSeq(tickets, 1, Min(MaxShown, Len(tickets))),
                       "ticketDescription", MaxDescription)
        /\ LinesAfter(ragResult.answer, "**Resolution:** ", 1)
               = Shown(SubSeq(tickets, 1, Min(MaxShown, Len(tickets))),
                       "resolution", MaxResolution)
        /\ \A i \in 1..Len(LinesAfter(ragResult.answer, "**Issue:** ", 1)) :
               Len(LinesAfter(ragResult.answer, "**Issue:** ", 1)[i])
                   <= MaxDescription + 3
        /\ \A i \in 1..Len(LinesAfter(ragResult.answer, "**Resolution:** ", 1)) :
               Len(LinesAfter(ragResult.answer, "**Resolution:** ", 1)[i])
                   <= MaxResolution + 3

\* a template answer on a ticket whose description has 151 characters and
\* whose resolution has 201
C36_Witness ==
    /\ TemplateAnswered
    /\ Len(tickets) = 2
    /\ Len(tickets[1].ticketDescription) = MaxDescription + 1
    /\ Len(tickets[1].resolution) = MaxResolution + 1
    /\ Len(tickets[2].ticketDescription) = MaxDescription
    /\ Len(LinesAfter(ragResult.answer, "**Issue:** ", 1)[1]) = MaxDescription + 3
    /\ Len(LinesAfter(ragResult.answer, "**Issue:** ", 1)[2]) = MaxDescription

(***************************************************************************)
(* The kind of a classifier error.                                         *)
(***************************************************************************)
ClassifierFailed == classifierReply.kind = "throw" /\ analysis # Null

\* what the keyword classifier returns for the query of the call after an
\* error of the other kind
OtherKindAnalysis ==
    KeywordAnalysis(userQuery, ~isQuotaError(classifierReply.message))

\* C37: after a classifier error the flags needsRAG and needsChart, and the
\* tools that are then run, are those the keyword classifier gives the same
\* query after an error of the other kind (quota or not); only the reasoning
\* text tells the two kinds apart.
C37_QuotaChangesDiagnosticsOnly ==
    ClassifierFailed =>
        /\ Decision(analysis) = Decision(OtherKindAnalysis)
        /\ DOMAIN analysis = {"needsRAG", "needsChart", "reasoning"}
        /\ analysis.reasoning # OtherKindAnalysis.reasoning
        /\ Dispatched =>
              /\ Invoked("retrieval") <=> Truthy(Get(OtherKindAnalysis, "needsRAG"))
              /\ Invoked("analytics") <=> Truthy(Get(OtherKindAnalysis, "needsChart"))

\* a call that ran both tools after a rate-limit error of the classifier
C37_Witness ==
    /\ ClassifierFailed
    /\ classifierReply.message = "rate limit reached"
    /\ isQuotaError(classifierReply.message)
    /\ userQuery = "Fix chart"
    /\ pc = "done"
    /\ Invoked("retrieval")
    /\ Invoked("analytics")
    /\ analysis.reasoning # OtherKindAnalysis.reasoning

(***************************************************************************)
(* The order of the time statistics.                                       *)
(***************************************************************************)
\* C38: whenever response times were sampled, the statistics of a summary
\* satisfy min <= average <= max, the average being the value rounded to two
\* decimal places that the summary carries.
C38_AverageBetweenMinAndMax ==
    Scanned =>
        \A k \in 1..Len(summaries) :
            summaries[k].responseTimeStats.count >= 1 =>
                /\ summaries[k].responseTimeStats.min
                       <= summaries[k].responseTimeStats.average
                /\ summaries[k].responseTimeStats.average
                       <= summaries[k].responseTimeStats.max

(***************************************************************************)
(* The import of the CSV rows.                                             *)
(***************************************************************************)
\* how often a row is among the rows handed to the store
TimesSubmitted(row) ==
    Cardinality({place \in UNION {{<<b, i>> : i \in 1..Len(batches[b])} :
                                      b \in 1..Len(batches)} :
                    batches[place[1]][place[2]] = row})

InCurrentBatch(row) == \E i \in 1..Len(currentBatch) : currentBatch[i] = row

\* C39: as long as no batch has failed, no row that was read is handed to
\* the store twice, and a row that was read and not yet handed over waits in
\* currentBatch; when importData has resolved every row of the file was read
\* and handed over in exactly one batch, and totalProcessed and successCount
\* both equal the number of rows read.
C39_EveryRowInExactlyOneBatch ==
    rejections = 0 =>
        /\ \A row \in 1..delivered :
               /\ TimesSubmitted(row) <= 1
               /\ TimesSubmitted(row) = 0 => InCurrentBatch(row)
        /\ importPc = "resolved" =>
               /\ delivered = csvRows
               /\ \A row \in 1..csvRows : TimesSubmitted(row) = 1
               /\ totalProcessed = delivered
               /\ successCount = delivered

\* an import of five rows has resolved after two full batches and a last
\* one of the row left over
C39_Witness ==
    /\ importPc = "resolved"
    /\ rejections = 0
    /\ csvRows = 2 * batchSize + 1
    /\ Len(batches) = 3
    /\ Len(batches[3]) = 1
    /\ totalProcessed = csvRows
    /\ successCount = csvRows

====
